---- MODULE Spec2Model ----
(***************************************************************************)
(* Model of the ERA5 -> OpenVisus IDX conversion scripts                   *)
(* (directory conversion_scripts): the hour-index codec, the audit of      *)
(* missing hours, the compression into ranges, the planning of repairs,    *)
(* the repair runs and their repetition, the tools that start from the     *)
(* range report (rebuild_missing_from_ranges, run_missing_days_fast), the   *)
(* write loops, the time window of the store, the scan of the store root   *)
(* and the creation of the store by concurrent processes.                  *)
(*                                                                         *)
(* Representation of the library values the scripts hand around:           *)
(*   - a numpy datetime64 is an integer, the minutes since                 *)
(*     1970-01-01T00:00 (numpy keeps a count since the Unix epoch);        *)
(*   - a Python datetime is a record [year, month, day, hour, minute,      *)
(*     second]; a Python date is a record [year, month, day];              *)
(*   - a calendar string is the sequence of its zero-padded numeric        *)
(*     fields: "YYYY-MM-DD HH:MM:SS" is <<Y, M, D, h, m, s>>,              *)
(*     "YYYY-MM-DD HH:MM" is <<Y, M, D, h, m>>, "YYYY-MM-DD" is <<Y, M, D>>*)
(***************************************************************************)
EXTENDS Integers, Sequences, FiniteSets, TLC

VARIABLES
    cpc,        \* codec: "in" (nothing converted), "mid" (converted once), "out" (and
                \* back), "next" (cout holds the indices of the following hour)
    cin,        \* codec: the input, [kind |-> "ts", v |-> datetime] or [kind |-> "idx", v |-> index]
    cmid,       \* codec: result of the first conversion (None before it ran)
    cout        \* codec: result of the second conversion (None before it ran)

VARIABLES
    rpc,        \* ranges: "in", "compressed", "expanded", "recompressed"
    rin,        \* ranges: the strictly ascending list given to contiguous_ranges
    rranges,    \* ranges: contiguous_ranges(rin)
    rexp,       \* ranges: expand_hours(rranges)
    rre         \* ranges: contiguous_ranges(rexp)

VARIABLES
    storeDirs,  \* the indices n of the time directories of the IDX root
    csv,        \* the missing-hours ledger file (--csv-out): [exists, header, rows]
    apc,        \* audit: "start", "done" (main returned), "exit" (sys.exit)
    argStart,   \* audit: --start, a calendar string, <<>> when not given
    argEnd,     \* audit: --end, a calendar string, <<>> when not given
    exitCode,   \* audit: the process exit code
    expected,   \* audit: <<exp_start, exp_end>> as printed, <<>> before
    missing,    \* audit: the list of missing indices
    rangeLines  \* audit: the range lines printed, [a, b, iso_a, iso_b, hours]

VARIABLES
    hpc,            \* repair: "idle", "start", "run" (in the loop over dates), "done", "exit"
    hArgs,          \* repair: [tool, start, end, full_day, limit_days, compress]
    source,         \* the ERA5 archive: [months, hours, holds]
    idxExists,      \* whether the .idx file exists
    per_day,        \* repair: the dict date -> set of hours of parse_missing_csv
    dates,          \* repair: the sorted, limited list of dates of main
    hItems,         \* repair: the work items handed to write_missing_for_date so far
    storeOps,       \* repair: the calls made on the store, [op, time, ts, item], in order
    total_written,  \* repair: main's total_written
    total_days,     \* repair: main's total_days
    hExit           \* repair: the process exit code

VARIABLES
    run,            \* repair: 1 in the first run of the tool, 2 in the run that repeats it
    firstRun,       \* repair: what the first run left, [dirs, data, written, exit]
    storeData       \* the content of each time directory: the source timestamp whose
                    \* field was written there, 0 for what the store held before

VARIABLES
    xpc,        \* rebuild / fast: "idle", "start", "listed", "run", "shutdown", "done", "exit"
    xArgs,      \* rebuild / fast: [tool, execute, cmd_ok, jobs, stop_on_error, compress]
    rfile,      \* the --ranges text file, a list of lines, each a list of tokens
    xranges,    \* the list parse_ranges returned
    xdays,      \* fast: the list days_from_ranges returned
    days_txt,   \* the missing-days ledger (--days-txt): [exists, lines]
    xwork,      \* the work items: the days of run_for_days, the month tuples of main
    failing,    \* the days on which the per-day command ends with a code other than 0
    xstarted,   \* the positions in xwork of the items started, in the order of start
    xrunning,   \* the positions of the items a worker is running
    xcompleted, \* the futures done, [item, rc], in the order of completion
    xresults,   \* the results the main thread has taken, in its order
    xstopAt,    \* the number of items started when the main thread stopped, -1 before
    xExit       \* the process exit code

VARIABLES
    lpc,        \* write loop: "in", "out"
    lin,        \* write loop: [times, compress]
    lout        \* write loop: the calls made on the store, in order

VARIABLES
    wpc,        \* time window: "absent" (no store yet), "created", "written", "raised"
    wts,        \* time window: the timestamp of the slice to write, a datetime
    wstore,     \* time window: [creator, TIME_START, TIME_END] of the store created
    wcall       \* time window: [writer, time] of the call db.write(slice, time=...)

VARIABLES
    npc,        \* scan: "in" (before parse_present_indices), "out" (it returned)
    nroot,      \* scan: the entries of the directory, each [name, isdir]
    npresent    \* scan: the list parse_present_indices returned

VARIABLES
    rootIsDir,  \* audit: whether --idx-path names a directory
    qpc,        \* ensure_idx: where each worker is: "start", "checked", "open", "done"
    qseen,      \* ensure_idx: what os.path.exists gave each worker
    qlog        \* ensure_idx: the calls made on the store, [op, w], in order

codecVars == <<cpc, cin, cmid, cout>>
windowVars == <<wpc, wts, wstore, wcall>>
scanVars == <<npc, nroot, npresent>>
raceVars == <<qpc, qseen, qlog>>
idxVars == <<windowVars, scanVars, rootIsDir, raceVars>>
rerunVars == <<run, firstRun, storeData>>
execIn == <<xArgs, rfile, failing>>
execPlan == <<xranges, xdays, days_txt, xwork>>
execRun == <<xstarted, xrunning, xcompleted, xresults, xstopAt>>
execVars == <<xpc, execIn, execPlan, execRun, xExit>>
loopVars == <<lpc, lin, lout>>
repairVars == <<hpc, hArgs, source, idxExists, per_day, dates, hItems, storeOps,
                total_written, total_days, hExit>>
rangesVars == <<rpc, rin, rranges, rexp, rre>>
auditVars == <<storeDirs, csv, apc, argStart, argEnd, exitCode, expected, missing, rangeLines>>

vars == <<codecVars, rangesVars, auditVars, repairVars, rerunVars, execVars, loopVars, idxVars>>

None == "None"

----------------------------------------------------------------------------
(* Calendar arithmetic of numpy / datetime                                  *)

\* C-style integer division (truncation toward zero): Python int(x), numpy astype(int64)
TruncDiv(a, b) == IF a >= 0 THEN a \div b ELSE 0 - ((0 - a) \div b)

IsLeap(y) == (y % 4 = 0) /\ ((y % 100 # 0) \/ (y % 400 = 0))

DaysInMonth(y, m) ==
    IF m = 2 THEN (IF IsLeap(y) THEN 29 ELSE 28)
    ELSE IF m \in {4, 6, 9, 11} THEN 30 ELSE 31

RECURSIVE DaysBeforeMonth(_, _)
DaysBeforeMonth(y, m) == IF m <= 1 THEN 0 ELSE DaysBeforeMonth(y, m - 1) + DaysInMonth(y, m - 1)

\* days from 1970-01-01 to y-m-d: year count times 365 plus the leap days
\* between, plus the month table (numpy get_datetimestruct_days)
DaysFromCivil(y, m, d) ==
    LET yr    == y - 1970
        leaps == IF yr >= 0
                 THEN ((yr + 1) \div 4) - ((yr + 69) \div 100) + ((yr + 369) \div 400)
                 ELSE TruncDiv(yr - 2, 4) - TruncDiv(yr - 30, 100) + TruncDiv(yr - 30, 400)
    IN  yr * 365 + leaps + DaysBeforeMonth(y, m) + (d - 1)

\* the calendar date of a day count since 1970-01-01, by 400/100/4/1-year
\* cycles (numpy days_to_yearsdays, Python ord2ymd)
CivilFromDays(z) ==
    LET z0  == z + 719468
        era == z0 \div 146097
        doe == z0 - era * 146097
        yoe == (doe - (doe \div 1460) + (doe \div 36524) - (doe \div 146096)) \div 365
        doy == doe - (365 * yoe + (yoe \div 4) - (yoe \div 100))
        mp  == (5 * doy + 2) \div 153
        d   == doy - ((153 * mp + 2) \div 5) + 1
        m   == IF mp < 10 THEN mp + 3 ELSE mp - 9
        y   == yoe + era * 400 + (IF m <= 2 THEN 1 ELSE 0)
    IN  [year |-> y, month |-> m, day |-> d]

\* np.datetime64("YYYY-MM-DDThh:mm[:ss]"): the string's fields to a count since 1970
datetime64(iso) ==
    (DaysFromCivil(iso[1], iso[2], iso[3]) * 24 + iso[4]) * 60 + iso[5]

\* a datetime64 as a Python datetime (astype / utcfromtimestamp / pd.to_datetime)
ToDatetime(t) ==
    LET c   == CivilFromDays(t \div 1440)
        rem == t % 1440
    IN  [year |-> c.year, month |-> c.month, day |-> c.day,
         hour |-> rem \div 60, minute |-> rem % 60, second |-> 0]

\* strftime("%Y-%m-%d %H:%M:%S")
strftime(dt) == <<dt.year, dt.month, dt.day, dt.hour, dt.minute, dt.second>>

\* datetime.strptime(s, "%Y-%m-%d %H:%M:%S")
strptime(s) ==
    [year |-> s[1], month |-> s[2], day |-> s[3], hour |-> s[4], minute |-> s[5], second |-> s[6]]

\* datetime.date()
DateOf(dt) == [year |-> dt.year, month |-> dt.month, day |-> dt.day]

\* datetime + timedelta(hours = h)
PlusHours(dt, h) ==
    ToDatetime(datetime64(<<dt.year, dt.month, dt.day, dt.hour, dt.minute>>) + h * 60)

----------------------------------------------------------------------------
(* The hour-index codec                                                     *)

BASE_YEAR == 1940

\* BASE_YEAR * 365 * 24, the additive offset shared by every encoder
EPOCH_OFFSET == BASE_YEAR * 365 * 24

\* audit_missing_hours.BASE0 = np.datetime64("1940-01-01T00:00:00")
BASE0 == datetime64(<<BASE_YEAR, 1, 1, 0, 0, 0>>)

\* rebuild_missing_from_ranges.BASE0 = datetime(BASE_YEAR, 1, 1, 0, 0, 0)
BASE0_dt == [year |-> BASE_YEAR, month |-> 1, day |-> 1, hour |-> 0, minute |-> 0, second |-> 0]

\* variant: the decoder forgets that indices are 1-based
iso_from_hour_index_zero_based(t) ==
    LET offset == t - (BASE_YEAR * 365 * 24)
        dt     == BASE0 + offset * 60
        py_dt  == ToDatetime(dt)
    IN  strftime(py_dt)

\* audit_missing_hours.iso_from_hour_index
iso_from_hour_index(t) ==
    LET offset == t - (BASE_YEAR * 365 * 24 + 1)
        dt     == BASE0 + offset * 60
        py_dt  == ToDatetime(dt)
    IN  strftime(py_dt)

\* audit_missing_hours.hour_index_from_iso
hour_index_from_iso(iso) ==
    LET iso2        == IF Len(iso) <= 3 THEN iso \o <<0, 0, 0>> ELSE iso
        dt          == datetime64(iso2)
        hours_since == TruncDiv(dt - BASE0, 60)
    IN  BASE_YEAR * 365 * 24 + hours_since + 1

\* run_missing_hours.hour_index_from_iso
hour_index_from_iso_rmh(iso) ==
    LET iso2        == IF Len(iso) <= 3 THEN iso \o <<0, 0, 0>> ELSE iso
        dt          == datetime64(iso2)
        base0       == datetime64(<<BASE_YEAR, 1, 1, 0, 0, 0>>)
        hours_since == TruncDiv(dt - base0, 60)
    IN  BASE_YEAR * 365 * 24 + hours_since + 1

\* rebuild_missing_from_ranges.dt_from_hour_index
dt_from_hour_index(t) ==
    LET offset_h == t - (BASE_YEAR * 365 * 24 + 1)
    IN  PlusHours(BASE0_dt, offset_h)

\* variant: days counted with 365-day years, the leap day compressed out
calculate_abs_hour_index_no_leap(year, month, day, hour) ==
    LET days_since == (year - BASE_YEAR) * 365 + DaysBeforeMonth(1941, month) + (day - 1)
    IN  BASE_YEAR * 365 * 24 + days_since * 24 + hour + 1

\* daily_era5_2t.calculate_abs_hour_index
calculate_abs_hour_index(year, month, day, hour) ==
    LET base       == datetime64(<<BASE_YEAR, 1, 1, 0, 0, 0>>)
        t          == datetime64(<<year, month, day, hour, 0, 0>>)
        days_since == (t \div 1440) - (base \div 1440)
    IN  BASE_YEAR * 365 * 24 + days_since * 24 + hour + 1

\* daily_era5_2t.abs_time_index_hours_leapaware, on one element of the array
abs_time_index_hours_leapaware(ts) ==
    LET base        == datetime64(<<BASE_YEAR, 1, 1, 0, 0, 0>>)
        hours_since == TruncDiv(ts - base, 60)
    IN  hours_since + (BASE_YEAR * 365 * 24 + 1)

\* variant: the epoch offset is leap-adjusted too (366-day years)
abs_time_index_hours_leapaware_sfc_leap_offset(ts) ==
    LET days_since    == (ts \div 1440) - (BASE0 \div 1440)
        hours         == (ts % 1440) \div 60
        base_offset_h == 1940 * 366 * 24
    IN  base_offset_h + days_since * 24 + hours + 1

\* era5_sfc_2t.abs_time_index_hours_leapaware (pandas days + hour form)
abs_time_index_hours_leapaware_sfc(ts) ==
    LET days_since    == (ts \div 1440) - (BASE0 \div 1440)
        hours         == (ts % 1440) \div 60
        base_offset_h == 1940 * 365 * 24
    IN  base_offset_h + days_since * 24 + hours + 1

\* run_missing_hours.abs_time_index_hours_leapaware
abs_time_index_hours_leapaware_rmh(ts) ==
    LET base        == datetime64(<<BASE_YEAR, 1, 1, 0, 0, 0>>)
        hours_since == TruncDiv(ts - base, 60)
    IN  hours_since + (BASE_YEAR * 365 * 24 + 1)

\* run_missing_days.abs_time_index_hours_leapaware
abs_time_index_hours_leapaware_rmd(ts) ==
    LET base        == datetime64(<<BASE_YEAR, 1, 1, 0, 0, 0>>)
        hours_since == TruncDiv(ts - base, 60)
    IN  hours_since + (BASE_YEAR * 365 * 24 + 1)

\* run_missing_days_fast.abs_time_index_hours_leapaware
abs_time_index_hours_leapaware_fast(ts) ==
    LET base        == datetime64(<<BASE_YEAR, 1, 1, 0, 0, 0>>)
        hours_since == TruncDiv(ts - base, 60)
    IN  hours_since + (BASE_YEAR * 365 * 24 + 1)

----------------------------------------------------------------------------
(* Gap detection: audit_missing_hours, and expand_hours of the rebuild tool  *)

\* the elements of a finite set of integers in ascending order (list.sort)
RECURSIVE SortedSeq(_)
SortedSeq(S) ==
    IF S = {} THEN <<>>
    ELSE LET lo == CHOOSE x \in S : \A y \in S : x <= y
         IN  <<lo>> \o SortedSeq(S \ {lo})

SeqSet(xs) == { xs[i] : i \in 1..Len(xs) }

\* min(list), max(list)
MinOf(xs) == CHOOSE x \in SeqSet(xs) : \A y \in SeqSet(xs) : x <= y
MaxOf(xs) == CHOOSE x \in SeqSet(xs) : \A y \in SeqSet(xs) : x >= y

\* a file name is the sequence of its characters
Digits == <<"0", "1", "2", "3", "4", "5", "6", "7", "8", "9">>
IsDigit(c) == \E i \in 1..10 : Digits[i] = c
DigitVal(c) == (CHOOSE i \in 1..10 : Digits[i] = c) - 1

\* TIME_DIR_RE.match(name), r"^(\d+)$": group 1 of the match, <<>> when the
\* name does not match; $ also matches before a line feed that ends the name
TIME_DIR_RE(name) ==
    LET body == IF Len(name) > 1 /\ name[Len(name)] = "\n"
                THEN SubSeq(name, 1, Len(name) - 1) ELSE name
    IN  IF body # <<>> /\ \A i \in 1..Len(body) : IsDigit(body[i]) THEN body ELSE <<>>

\* int(m.group(1)): leading zeros do not count
RECURSIVE IntOf(_)
IntOf(digs) ==
    IF digs = <<>> THEN 0
    ELSE IntOf(SubSeq(digs, 1, Len(digs) - 1)) * 10 + DigitVal(digs[Len(digs)])

\* the name "%d" gives a time directory: str(n)
RECURSIVE DecimalName(_)
DecimalName(n) ==
    IF n < 10 THEN <<Digits[n + 1]>>
    ELSE DecimalName(n \div 10) \o <<Digits[(n % 10) + 1]>>

\* os.listdir of a root that holds the time directories dirs and nothing else
TimeDirNames(dirs) == { DecimalName(n) : n \in dirs }

\* the list present after present.sort(): one element per matching name
RECURSIVE SortedValues(_)
SortedValues(names) ==
    IF names = {} THEN <<>>
    ELSE LET lo == CHOOSE x \in names :
                       \A y \in names : IntOf(TIME_DIR_RE(x)) <= IntOf(TIME_DIR_RE(y))
         IN  <<IntOf(TIME_DIR_RE(lo))>> \o SortedValues(names \ {lo})

\* audit_missing_hours.parse_present_indices: the names of os.listdir that
\* match TIME_DIR_RE, as integers, sorted; the list keeps one element per
\* name, whatever kind of entry the name belongs to
parse_present_indices(names) ==
    SortedValues({ x \in names : TIME_DIR_RE(x) # <<>> })

\* the generator's loop: rest is what is left of sorted_ints[1:], out the
\* ranges yielded so far
RECURSIVE contiguous_scan(_, _, _, _, _)
contiguous_scan(rest, start, prev, step, out) ==
    IF rest = <<>> THEN Append(out, <<start, prev>>)
    ELSE LET x == Head(rest)
         IN  IF x # prev + step
             THEN contiguous_scan(Tail(rest), x, x, step, Append(out, <<start, prev>>))
             ELSE contiguous_scan(Tail(rest), start, x, step, out)

\* variant: the run in progress when the input ends is never yielded
contiguous_ranges_no_last(sorted_ints, step) ==
    IF sorted_ints = <<>> THEN <<>>
    ELSE LET all == contiguous_scan(Tail(sorted_ints), sorted_ints[1], sorted_ints[1], step, <<>>)
         IN  SubSeq(all, 1, Len(all) - 1)

\* variant: every index is yielded as a range of its own
contiguous_ranges_singletons(sorted_ints, step) ==
    [i \in 1..Len(sorted_ints) |-> <<sorted_ints[i], sorted_ints[i]>>]

\* audit_missing_hours.contiguous_ranges, the ranges in the order yielded
contiguous_ranges(sorted_ints, step) ==
    IF sorted_ints = <<>> THEN <<>>
    ELSE contiguous_scan(Tail(sorted_ints), sorted_ints[1], sorted_ints[1], step, <<>>)

\* range(a, b + 1)
RangeSeq(a, b) == [i \in 1..(b - a + 1) |-> a + i - 1]

\* variant: the end of a range is taken as exclusive
RECURSIVE expand_hours_exclusive(_)
expand_hours_exclusive(ranges) ==
    IF ranges = <<>> THEN <<>>
    ELSE LET a0 == ranges[1][1]
             b0 == ranges[1][2]
             a  == IF b0 < a0 THEN b0 ELSE a0
             b  == IF b0 < a0 THEN a0 ELSE b0
         IN  RangeSeq(a, b - 1) \o expand_hours_exclusive(Tail(ranges))

\* rebuild_missing_from_ranges.expand_hours, the indices in the order generated
RECURSIVE expand_hours(_)
expand_hours(ranges) ==
    IF ranges = <<>> THEN <<>>
    ELSE LET a0 == ranges[1][1]
             b0 == ranges[1][2]
             a  == IF b0 < a0 THEN b0 ELSE a0
             b  == IF b0 < a0 THEN a0 ELSE b0
         IN  RangeSeq(a, b) \o expand_hours(Tail(ranges))

----------------------------------------------------------------------------
(* Codec runs: one timestamp or one index is taken through the codec        *)

\* years of the calendar inputs: the first years of the epoch, and the two
\* century years (2000 is a leap year, 2100 is not)
YearSpan == 1
CodecYears == (BASE_YEAR .. (BASE_YEAR + YearSpan)) \cup {2000, 2100}

\* the valid whole-hour calendar timestamps of those years
Timestamps ==
    { [year |-> y, month |-> m, day |-> d, hour |-> h, minute |-> 0, second |-> 0] :
        y \in CodecYears, m \in 1..12, d \in 1..31, h \in 0..23 } \
    { t \in [year : CodecYears, month : 1..12, day : 29..31, hour : 0..23,
             minute : {0}, second : {0}] : t.day > DaysInMonth(t.year, t.month) }

\* index inputs: the hours from the epoch index on, and three days around the
\* end of February of 2000 and of 2100
IdxSpan == 9000
LateSpan == 72
IndexInputs ==
    ((EPOCH_OFFSET + 1) .. (EPOCH_OFFSET + 1 + IdxSpan))
    \cup { EPOCH_OFFSET + 21973 * 24 + 1 + k : k \in 0..LateSpan }
    \cup { EPOCH_OFFSET + 58498 * 24 + 1 + k : k \in 0..LateSpan }

\* the timestamp one hour later, by the calendar's carry rules
AddHour(dt) ==
    IF dt.hour < 23 THEN [dt EXCEPT !.hour = dt.hour + 1]
    ELSE IF dt.day < DaysInMonth(dt.year, dt.month)
         THEN [dt EXCEPT !.hour = 0, !.day = dt.day + 1]
    ELSE IF dt.month < 12
         THEN [dt EXCEPT !.hour = 0, !.day = 1, !.month = dt.month + 1]
    ELSE [dt EXCEPT !.hour = 0, !.day = 1, !.month = 1, !.year = dt.year + 1]

\* every encoder of the repository applied to one timestamp, each fed the
\* value its callers give it (integers, a datetime64, a calendar string)
Encoders(dt) ==
    LET iso == strftime(dt)
        ts  == datetime64(iso)
    IN  [ calc     |-> calculate_abs_hour_index(dt.year, dt.month, dt.day, dt.hour),
          daily    |-> abs_time_index_hours_leapaware(ts),
          sfc      |-> abs_time_index_hours_leapaware_sfc(ts),
          rmh      |-> abs_time_index_hours_leapaware_rmh(ts),
          rmd      |-> abs_time_index_hours_leapaware_rmd(ts),
          fast     |-> abs_time_index_hours_leapaware_fast(ts),
          iso      |-> hour_index_from_iso(iso),
          iso_rmh  |-> hour_index_from_iso_rmh(iso) ]

\* both decoders applied to one index
Decoders(t) ==
    [ audit |-> iso_from_hour_index(t), rebuild |-> dt_from_hour_index(t) ]



\* timestamp -> index
Encode ==
    /\ cin.kind = "ts" /\ cpc = "in"
    /\ cmid' = Encoders(cin.v)
    /\ cpc' = "mid"
    /\ UNCHANGED <<cin, cout, rangesVars, auditVars, repairVars, rerunVars, execVars, loopVars, idxVars>>

\* ... -> index -> timestamp: every index obtained is decoded by both decoders
DecodeBack ==
    /\ cin.kind = "ts" /\ cpc = "mid"
    /\ cout' = [k \in DOMAIN cmid |-> Decoders(cmid[k])]
    /\ cpc' = "out"
    /\ UNCHANGED <<cin, cmid, rangesVars, auditVars, repairVars, rerunVars, execVars, loopVars, idxVars>>

\* index -> timestamp
Decode ==
    /\ cin.kind = "idx" /\ cpc = "in"
    /\ cmid' = Decoders(cin.v)
    /\ cpc' = "mid"
    /\ UNCHANGED <<cin, cout, rangesVars, auditVars, repairVars, rerunVars, execVars, loopVars, idxVars>>

\* ... -> timestamp -> index
EncodeBack ==
    /\ cin.kind = "idx" /\ cpc = "mid"
    /\ cpc' = "out"
    /\ cout' = [ audit   |-> hour_index_from_iso(cmid.audit),
                 rebuild |-> hour_index_from_iso(strftime(cmid.rebuild)) ]
    /\ UNCHANGED <<cin, cmid, rangesVars, auditVars, repairVars, rerunVars, execVars, loopVars, idxVars>>

\* the timestamp one hour after the encoded one is encoded too
NextHour ==
    /\ cin.kind = "ts" /\ cpc = "mid"
    /\ cout' = Encoders(AddHour(cin.v))
    /\ cpc' = "next"
    /\ UNCHANGED <<cin, cmid, rangesVars, auditVars, repairVars, rerunVars, execVars, loopVars, idxVars>>

NextCodec == Encode \/ DecodeBack \/ Decode \/ EncodeBack \/ NextHour

----------------------------------------------------------------------------
(* Range runs: one ascending list is compressed, expanded and recompressed   *)

\* the first index of the windows of indices of the model: 1940-02-28 22:00,
\* two hours before the leap day of the epoch year
WinBase == EPOCH_OFFSET + 1 + 58 * 24 + 22

RangeLen == 7
RangeInputs == { SortedSeq(S) : S \in SUBSET (WinBase .. (WinBase + RangeLen - 1)) }



Compress ==
    /\ rpc = "in"
    /\ rranges' = contiguous_ranges(rin, 1)
    /\ rpc' = "compressed"
    /\ UNCHANGED <<rin, rexp, rre, codecVars, auditVars, repairVars, rerunVars, execVars, loopVars, idxVars>>

Expand ==
    /\ rpc = "compressed"
    /\ rexp' = expand_hours(rranges)
    /\ rpc' = "expanded"
    /\ UNCHANGED <<rin, rranges, rre, codecVars, auditVars, repairVars, rerunVars, execVars, loopVars, idxVars>>

Recompress ==
    /\ rpc = "expanded"
    /\ rre' = contiguous_ranges(rexp, 1)
    /\ rpc' = "recompressed"
    /\ UNCHANGED <<rin, rranges, rexp, codecVars, auditVars, repairVars, rerunVars, execVars, loopVars, idxVars>>

NextRanges == Compress \/ Expand \/ Recompress

----------------------------------------------------------------------------
(* The audit: audit_missing_hours.main                                      *)

\* the store holds time directories only inside a window of MaxLen hours
\* that starts at 1940-02-28 22:00 and runs into the leap day
MaxLen == 5
Window == WinBase .. (WinBase + MaxLen - 1)

\* --start: not given, "1940-02-28 21:00" (one hour before the window),
\* "1940-02-29" (a date alone, the third hour of the window)
StartChoices == { <<>>, <<1940, 2, 28, 21, 0>>, <<1940, 2, 29>> }

\* --end: not given, "1940-02-28 23:00" (the second hour of the window),
\* "1940-03-01" (a date alone, after the leap day)
EndChoices == { <<>>, <<1940, 2, 28, 23, 0>>, <<1940, 3, 1>> }

\* the ledger file before the run: absent, or left by an earlier audit
NoLedger == [exists |-> FALSE, header |-> <<>>, rows |-> <<>>]
OldLedger ==
    [exists |-> TRUE, header |-> <<"hour_index", "iso_utc">>,
     rows |-> << <<WinBase - 100, iso_from_hour_index(WinBase - 100)>> >>]



\* lines 85-87: the exit code when no time directory is found (0: go on)
NoTimestepsExit(present) == IF present = <<>> THEN 1 ELSE 0

\* variant: an omitted --start defaults to the hour before the first present
ExpectedRange_hour_before(present, start, end) ==
    LET s0 == IF start # <<>> THEN hour_index_from_iso(start) ELSE MinOf(present) - 1
        e0 == IF end # <<>> THEN hour_index_from_iso(end) ELSE MaxOf(present)
    IN  IF e0 < s0 THEN <<e0, s0>> ELSE <<s0, e0>>

\* lines 89-101: the audited range <<exp_start, exp_end>>
ExpectedRange(present, start, end) ==
    LET s0 == IF start # <<>> THEN hour_index_from_iso(start) ELSE MinOf(present)
        e0 == IF end # <<>> THEN hour_index_from_iso(end) ELSE MaxOf(present)
    IN  IF e0 < s0 THEN <<e0, s0>> ELSE <<s0, e0>>

\* variant: the audited range stops one short of exp_end
MissingIn_exclusive(present, exp_start, exp_end) ==
    LET present_set == SeqSet(present)
        IsMissing(t) == t \notin present_set
    IN  SelectSeq(RangeSeq(exp_start, exp_end - 1), IsMissing)

\* lines 103-106: [t for t in range(exp_start, exp_end + 1) if t not in present_set]
MissingIn(present, exp_start, exp_end) ==
    LET present_set == SeqSet(present)
        IsMissing(t) == t \notin present_set
    IN  SelectSeq(RangeSeq(exp_start, exp_end), IsMissing)

\* lines 120-122: one printed line per range
RangeLinesOf(ranges) ==
    [i \in 1..Len(ranges) |->
        [a |-> ranges[i][1], b |-> ranges[i][2],
         iso_a |-> iso_from_hour_index(ranges[i][1]),
         iso_b |-> iso_from_hour_index(ranges[i][2]),
         hours |-> ranges[i][2] - ranges[i][1] + 1]]

\* lines 125-129: the ledger written
LedgerOf(miss) ==
    [exists |-> TRUE, header |-> <<"hour_index", "iso_utc">>,
     rows |-> [i \in 1..Len(miss) |-> <<miss[i], iso_from_hour_index(miss[i])>>]]

\* variant: with an empty store and both bounds given the whole range is
\* reported as missing
AuditNoTimesteps_whole_range ==
    /\ apc = "start"
    /\ rootIsDir
    /\ parse_present_indices(TimeDirNames(storeDirs)) = <<>>
    /\ IF argStart # <<>> /\ argEnd # <<>>
       THEN LET exp  == ExpectedRange(<<>>, argStart, argEnd)
                miss == MissingIn(<<>>, exp[1], exp[2])
            IN  /\ apc' = "done"
                /\ expected' = exp
                /\ missing' = miss
                /\ rangeLines' = RangeLinesOf(contiguous_ranges(miss, 1))
                /\ csv' = LedgerOf(miss)
                /\ UNCHANGED exitCode
       ELSE /\ apc' = "exit"
            /\ exitCode' = 1
            /\ UNCHANGED <<csv, expected, missing, rangeLines>>
    /\ UNCHANGED <<storeDirs, argStart, argEnd>>
    /\ UNCHANGED <<codecVars, rangesVars, repairVars, rerunVars, execVars, loopVars, idxVars>>

\* variant: the audit of a path that is no directory ends with exit code 0
AuditNotDir_exit0 ==
    /\ apc = "start"
    /\ ~rootIsDir
    /\ apc' = "exit"
    /\ exitCode' = 0
    /\ UNCHANGED <<storeDirs, csv, argStart, argEnd, expected, missing, rangeLines>>
    /\ UNCHANGED <<codecVars, rangesVars, repairVars, rerunVars, execVars, loopVars, idxVars>>

\* lines 79-82: --idx-path is no directory, exit code 2
AuditNotDir ==
    /\ apc = "start"
    /\ ~rootIsDir
    /\ apc' = "exit"
    /\ exitCode' = 2
    /\ UNCHANGED <<storeDirs, csv, argStart, argEnd, expected, missing, rangeLines>>
    /\ UNCHANGED <<codecVars, rangesVars, repairVars, rerunVars, execVars, loopVars, idxVars>>

\* lines 84-87: no time directory, exit code 1
AuditNoTimesteps ==
    /\ apc = "start"
    /\ rootIsDir
    /\ NoTimestepsExit(parse_present_indices(TimeDirNames(storeDirs))) # 0
    /\ apc' = "exit"
    /\ exitCode' = NoTimestepsExit(parse_present_indices(TimeDirNames(storeDirs)))
    /\ UNCHANGED <<storeDirs, csv, argStart, argEnd, expected, missing, rangeLines>>
    /\ UNCHANGED <<codecVars, rangesVars, repairVars, rerunVars, execVars, loopVars, idxVars>>

\* variant: the ledger is opened for writing before the missing list is looked at
AuditClean_truncates ==
    LET present == parse_present_indices(TimeDirNames(storeDirs))
        exp     == ExpectedRange(present, argStart, argEnd)
        miss    == MissingIn(present, exp[1], exp[2])
    IN  /\ apc = "start"
        /\ rootIsDir
        /\ NoTimestepsExit(present) = 0
        /\ miss = <<>>
        /\ apc' = "done"
        /\ expected' = exp
        /\ missing' = miss
        /\ csv' = LedgerOf(miss)
        /\ UNCHANGED <<storeDirs, argStart, argEnd, exitCode, rangeLines>>
        /\ UNCHANGED <<codecVars, rangesVars, repairVars, rerunVars, execVars, loopVars, idxVars>>

\* lines 84-116: nothing is missing in the range, main returns
AuditClean ==
    LET present == parse_present_indices(TimeDirNames(storeDirs))
        exp     == ExpectedRange(present, argStart, argEnd)
        miss    == MissingIn(present, exp[1], exp[2])
    IN  /\ apc = "start"
        /\ rootIsDir
        /\ NoTimestepsExit(present) = 0
        /\ miss = <<>>
        /\ apc' = "done"
        /\ expected' = exp
        /\ missing' = miss
        /\ UNCHANGED <<storeDirs, csv, argStart, argEnd, exitCode, rangeLines>>
        /\ UNCHANGED <<codecVars, rangesVars, repairVars, rerunVars, execVars, loopVars, idxVars>>

\* lines 84-130: the ranges are printed and the ledger is written
AuditMissing ==
    LET present == parse_present_indices(TimeDirNames(storeDirs))
        exp     == ExpectedRange(present, argStart, argEnd)
        miss    == MissingIn(present, exp[1], exp[2])
    IN  /\ apc = "start"
        /\ rootIsDir
        /\ NoTimestepsExit(present) = 0
        /\ miss # <<>>
        /\ apc' = "done"
        /\ expected' = exp
        /\ missing' = miss
        /\ rangeLines' = RangeLinesOf(contiguous_ranges(miss, 1))
        /\ csv' = LedgerOf(miss)
        /\ UNCHANGED <<storeDirs, argStart, argEnd, exitCode>>
        /\ UNCHANGED <<codecVars, rangesVars, repairVars, rerunVars, execVars, loopVars, idxVars>>

NextAudit == AuditNotDir \/ AuditNoTimesteps \/ AuditClean \/ AuditMissing

----------------------------------------------------------------------------
(* Repair: run_missing_hours ("rmh") and run_missing_days ("rmd"), and the   *)
(* ledger writer of rebuild_missing_from_ranges                             *)

\* rebuild_missing_from_ranges.write_missing_lists, lines 52-55: the hours CSV
write_missing_lists_csv(ranges) ==
    LET hours == expand_hours(ranges)
    IN  [exists |-> TRUE, header |-> <<"hour_index", "iso_utc">>,
         rows |-> [i \in 1..Len(hours) |->
                     <<hours[i], strftime(dt_from_hour_index(hours[i]))>>]]

\* datetime.strptime(s, "%Y-%m-%d").date()
ParseDate(s) == [year |-> s[1], month |-> s[2], day |-> s[3]]

\* date < date
DateLT(a, b) ==
    \/ a.year < b.year
    \/ a.year = b.year /\ a.month < b.month
    \/ a.year = b.year /\ a.month = b.month /\ a.day < b.day

\* sorted(dates)
RECURSIVE SortedDates(_)
SortedDates(S) ==
    IF S = {} THEN <<>>
    ELSE LET lo == CHOOSE x \in S : \A y \in S : x = y \/ DateLT(x, y)
         IN  <<lo>> \o SortedDates(S \ {lo})

\* per_day[d].add(h) on a defaultdict(set)
DictAdd(pd, d, h) ==
    [x \in (DOMAIN pd) \cup {d} |->
        IF x \in DOMAIN pd THEN (IF x = d THEN pd[x] \cup {h} ELSE pd[x]) ELSE {h}]

\* the loop over the rows of the ledger (lines 232-240); acc is [per_day, total_rows]
RECURSIVE parse_rows(_, _, _, _)
parse_rows(rows, d0, d1, acc) ==
    IF rows = <<>> THEN acc
    ELSE LET iso == rows[1][2]
             dt  == strptime(iso)
             d   == DateOf(dt)
         IN  IF iso = <<>> THEN parse_rows(Tail(rows), d0, d1, acc)
             ELSE IF \/ (d0 # <<>> /\ DateLT(d, ParseDate(d0)))
                     \/ (d1 # <<>> /\ DateLT(ParseDate(d1), d))
             THEN parse_rows(Tail(rows), d0, d1, acc)
             ELSE parse_rows(Tail(rows), d0, d1,
                             [per_day    |-> DictAdd(acc.per_day, d, dt.hour),
                              total_rows |-> acc.total_rows + 1])

\* variant: the date window is not applied
parse_missing_csv_no_window(file, start_date, end_date) ==
    parse_rows(file.rows, <<>>, <<>>, [per_day |-> <<>>, total_rows |-> 0]).per_day

\* run_missing_hours.parse_missing_csv
parse_missing_csv(file, start_date, end_date) ==
    parse_rows(file.rows, start_date, end_date, [per_day |-> <<>>, total_rows |-> 0]).per_day

\* run_missing_days.parse_missing_csv, which counts the rows kept as well
parse_missing_csv_rmd(file, start_date, end_date) ==
    parse_rows(file.rows, start_date, end_date, [per_day |-> <<>>, total_rows |-> 0])

\* main, lines 281-289: the dict of the tool chosen, and the dates to process
PerDayOf(args, file) ==
    IF args.tool = "rmh" THEN parse_missing_csv(file, args.start, args.end)
    ELSE parse_missing_csv_rmd(file, args.start, args.end).per_day

DatesOf(args, pd) ==
    LET all == SortedDates(DOMAIN pd)
    IN  IF args.limit_days = <<>> THEN all
        ELSE SubSeq(all, 1, IF args.limit_days[1] < Len(all) THEN args.limit_days[1] ELSE Len(all))

\* variant: the hours of the ledger are handed over in full-day mode too
WorkItem_always_partial(args, pd, d) ==
    [date |-> d, all |-> FALSE, hours |-> pd[d]]

\* main, lines 300-301: the work item of a date; all stands for the
\* argument None (all 24 hours)
WorkItem(args, pd, d) ==
    IF args.full_day THEN [date |-> d, all |-> TRUE, hours |-> {}]
    ELSE [date |-> d, all |-> FALSE, hours |-> pd[d]]

\* find_month_file: whether the month directory holds a file of the pattern
MonthFileFound(src, year, month) == <<year, month>> \in src.months

\* write_missing_for_date, lines 152-155: the checks made on the opened file,
\* "" when both pass, else the message of the RuntimeError raised
SourceChecks(src) ==
    IF "VAR_2T" \notin src.holds THEN "Variable 'VAR_2T' not found"
    ELSE IF "time" \notin src.holds THEN "No 'time' coordinate"
    ELSE ""

\* ds["time"].values of the month's file (of the days the model follows):
\* the hours held, day after day, in ascending order
RECURSIVE TimesOfDays(_, _)
TimesOfDays(src, ds) ==
    IF ds = <<>> THEN <<>>
    ELSE LET d       == ds[1]
             Held(h) == h \in src.hours[d]
             hs      == SelectSeq([i \in 1..24 |-> i - 1], Held)
         IN  [i \in 1..Len(hs) |-> datetime64(<<d.year, d.month, d.day, hs[i], 0, 0>>)]
             \o TimesOfDays(src, Tail(ds))

FileTimes(src, year, month) ==
    TimesOfDays(src, SortedDates({ x \in DOMAIN src.hours : x.year = year /\ x.month = month }))

\* variant: the mask of the day is not applied
DayTimes_whole_file(times_all, d) == times_all

\* times_all[mask_day], lines 159-166
DayTimes(times_all, d) ==
    LET day_start == datetime64(<<d.year, d.month, d.day, 0, 0, 0>>)
        day_end   == datetime64(<<d.year, d.month, d.day, 23, 0, 0>>)
        mask_day  == { i \in 1..Len(times_all) : times_all[i] >= day_start /\ times_all[i] <= day_end }
        idx       == SortedSeq(mask_day)
    IN  [k \in 1..Len(idx) |-> times_all[idx[k]]]

\* int(str(t)[11:13])
HourOfDay(t) == ToDatetime(t).hour

\* variant: the hours of the ledger do not filter the day
SelectedTimes_whole_day(times_day, item) == times_day

\* times_day[select_mask], lines 171-180 (all of times_day for the argument None)
SelectedTimes(times_day, item) ==
    LET Wanted(t) == HourOfDay(t) \in item.hours
    IN  IF item.all THEN times_day ELSE SelectSeq(times_day, Wanted)

\* variant: the repair indexes hours from 0
AbsIndex_zero_based(tool, t) ==
    abs_time_index_hours_leapaware_rmh(t) - 1

\* t_abs of the tool's own abs_time_index_hours_leapaware
AbsIndex(tool, t) ==
    IF tool = "rmh" THEN abs_time_index_hours_leapaware_rmh(t)
    ELSE abs_time_index_hours_leapaware_rmd(t)

\* the write loop, lines 192-199: write, then compress, hour by hour
RECURSIVE WriteOps(_, _, _)
WriteOps(times, tool, compress) ==
    IF times = <<>> THEN <<>>
    ELSE LET t == AbsIndex(tool, times[1])
             w == <<[op |-> "write", time |-> t, ts |-> times[1]]>>
             c == IF compress THEN <<[op |-> "compress", time |-> t, ts |-> times[1]]>> ELSE <<>>
         IN  w \o c \o WriteOps(Tail(times), tool, compress)

\* variant: a write adds to what the timestep holds
StoreAfter_append(data, ops) ==
    LET written == { ops[i].time : i \in { j \in 1..Len(ops) : ops[j].op = "write" } }
        TsOf(t) == ops[CHOOSE i \in 1..Len(ops) : ops[i].op = "write" /\ ops[i].time = t].ts
    IN  [t \in (DOMAIN data) \cup written |->
            IF t \in written
            THEN (IF t \in DOMAIN data THEN data[t] + TsOf(t) ELSE TsOf(t))
            ELSE data[t]]

\* db.write(slice, time=t) replaces the whole timestep t: the content of the
\* store after the calls of ops
StoreAfter(data, ops) ==
    LET written == { ops[i].time : i \in { j \in 1..Len(ops) : ops[j].op = "write" } }
        LastWrite(t) == CHOOSE i \in 1..Len(ops) :
                            /\ ops[i].op = "write" /\ ops[i].time = t
                            /\ \A j \in (i+1)..Len(ops) : ~(ops[j].op = "write" /\ ops[j].time = t)
    IN  [t \in (DOMAIN data) \cup written |->
            IF t \in written THEN ops[LastWrite(t)].ts ELSE data[t]]

\* the dates the model follows: the last day of February 1940 before the
\* leap day, the leap day, and the first of March
RepairDates ==
    { [year |-> 1940, month |-> 2, day |-> 28], [year |-> 1940, month |-> 2, day |-> 29],
      [year |-> 1940, month |-> 3, day |-> 1] }

\* the archive: complete; with hours 0 and 1 of the leap day and all of
\* March 1st absent from the files; without the file of March; without the
\* file of February; with files that lack the variable VAR_2T; with files
\* that lack the coordinate time
SourceChoices ==
    { [months |-> {<<1940, 2>>, <<1940, 3>>}, hours |-> [d \in RepairDates |-> 0..23],
       holds |-> {"VAR_2T", "time"}],
      [months |-> {<<1940, 2>>, <<1940, 3>>},
       hours |-> [d \in RepairDates |->
                    IF d.month = 3 THEN {} ELSE IF d.day = 29 THEN 2..23 ELSE 0..23],
       holds |-> {"VAR_2T", "time"}],
      [months |-> {<<1940, 2>>}, hours |-> [d \in RepairDates |-> 0..23],
       holds |-> {"VAR_2T", "time"}],
      [months |-> {<<1940, 3>>}, hours |-> [d \in RepairDates |-> 0..23],
       holds |-> {"VAR_2T", "time"}],
      [months |-> {<<1940, 2>>, <<1940, 3>>}, hours |-> [d \in RepairDates |-> 0..23],
       holds |-> {"time"}],
      [months |-> {<<1940, 2>>, <<1940, 3>>}, hours |-> [d \in RepairDates |-> 0..23],
       holds |-> {"VAR_2T"}] }

\* the indices a ledger may list: the window, and 1940-03-01 00:00
LedgerUniverse == Window \cup {WinBase + 26}
LedgerLists == { SortedSeq(S) : S \in (SUBSET LedgerUniverse) \ {{}} }

RepairArgs ==
    [tool : {"rmh", "rmd"}, start : {<<>>, <<1940, 2, 29>>}, end : {<<>>, <<1940, 2, 29>>},
     full_day : BOOLEAN, limit_days : {<<>>, <<1>>}, compress : BOOLEAN]

\* the item being handed to write_missing_for_date
CurDate == dates[Len(hItems) + 1]
CurItem == WorkItem(hArgs, per_day, CurDate)
CurDayTimes == DayTimes(FileTimes(source, CurDate.year, CurDate.month), CurDate)

\* main, lines 277-279: the ledger is no file, exit code 2
RepairNoCsv ==
    /\ hpc = "start"
    /\ ~csv.exists
    /\ hpc' = "exit"
    /\ hExit' = 2
    /\ UNCHANGED <<hArgs, source, idxExists, per_day, dates, hItems, storeOps,
                   total_written, total_days>>
    /\ UNCHANGED <<codecVars, rangesVars, auditVars, rerunVars, execVars, loopVars, idxVars>>

\* main, lines 281-284: no row matched the filters, main returns
RepairNothing ==
    /\ hpc = "start"
    /\ csv.exists
    /\ DOMAIN PerDayOf(hArgs, csv) = {}
    /\ hpc' = "done"
    /\ UNCHANGED <<hArgs, source, idxExists, per_day, dates, hItems, storeOps,
                   total_written, total_days, hExit>>
    /\ UNCHANGED <<codecVars, rangesVars, auditVars, rerunVars, execVars, loopVars, idxVars>>

\* main, lines 281-297: the ledger is grouped by day and the dates are listed
RepairPlan ==
    /\ hpc = "start"
    /\ csv.exists
    /\ \E pd \in {PerDayOf(hArgs, csv)} :
          /\ DOMAIN pd # {}
          /\ per_day' = pd
          /\ dates' = DatesOf(hArgs, pd)
    /\ hpc' = "run"
    /\ UNCHANGED <<hArgs, source, idxExists, hItems, storeOps, total_written, total_days, hExit>>
    /\ UNCHANGED <<codecVars, rangesVars, auditVars, rerunVars, execVars, loopVars, idxVars>>

\* write_missing_for_date raises (no file for the month; the file lacks the
\* variable or the time coordinate; in run_missing_hours also no timestamp of
\* the day in the file): nothing catches it, the run ends
WriteDateRaises ==
    /\ hpc = "run" /\ Len(hItems) < Len(dates)
    /\ \E d \in {CurDate} :
          /\ \/ ~MonthFileFound(source, d.year, d.month)
             \/ SourceChecks(source) # ""
             \/ SourceChecks(source) = "" /\ hArgs.tool = "rmh" /\ CurDayTimes = <<>>
          /\ hItems' = Append(hItems, WorkItem(hArgs, per_day, d))
    /\ hpc' = "exit"
    /\ hExit' = 1
    /\ UNCHANGED <<hArgs, source, idxExists, per_day, dates, storeOps, total_written, total_days>>
    /\ UNCHANGED <<codecVars, rangesVars, auditVars, rerunVars, execVars, loopVars, idxVars>>

\* write_missing_for_date returns 0: none of the hours asked for is in the
\* file (in run_missing_days also: no timestamp of the day is in the file)
WriteDateSkips ==
    /\ hpc = "run" /\ Len(hItems) < Len(dates)
    /\ MonthFileFound(source, CurDate.year, CurDate.month)
    /\ SourceChecks(source) = ""
    /\ \E item \in {CurItem}, times_day \in {CurDayTimes} :
          /\ \/ hArgs.tool = "rmd" /\ times_day = <<>>
             \/ times_day # <<>> /\ SelectedTimes(times_day, item) = <<>>
          /\ hItems' = Append(hItems, item)
    /\ total_days' = total_days + 1
    /\ UNCHANGED <<hpc, hArgs, source, idxExists, per_day, dates, storeOps, total_written, hExit>>
    /\ UNCHANGED <<codecVars, rangesVars, auditVars, rerunVars, execVars, loopVars, idxVars>>

\* write_missing_for_date writes the selected hours of the day
WriteDateWrites ==
    /\ hpc = "run" /\ Len(hItems) < Len(dates)
    /\ MonthFileFound(source, CurDate.year, CurDate.month)
    /\ SourceChecks(source) = ""
    /\ \E item \in {CurItem} :
       \E times \in {SelectedTimes(CurDayTimes, item)} :
       \E ops \in {WriteOps(times, hArgs.tool, hArgs.compress)} :
          /\ times # <<>>
          /\ hItems' = Append(hItems, item)
          /\ storeOps' = storeOps \o [i \in 1..Len(ops) |->
                                         [op |-> ops[i].op, time |-> ops[i].time,
                                          ts |-> ops[i].ts, item |-> Len(hItems) + 1]]
          /\ storeDirs' = storeDirs \cup { ops[i].time : i \in 1..Len(ops) }
          /\ storeData' = StoreAfter(storeData, ops)
          /\ total_written' = total_written + Len(times)
    /\ idxExists' = TRUE
    /\ total_days' = total_days + 1
    /\ UNCHANGED <<hpc, hArgs, source, per_day, dates, hExit>>
    /\ UNCHANGED <<csv, apc, argStart, argEnd, exitCode, expected, missing, rangeLines>>
    /\ UNCHANGED <<codecVars, rangesVars, run, firstRun, execVars, loopVars, idxVars>>

\* main, lines 313-316: every date was processed, the summary is printed
RepairSummary ==
    /\ hpc = "run" /\ Len(hItems) = Len(dates)
    /\ hpc' = "done"
    /\ UNCHANGED <<hArgs, source, idxExists, per_day, dates, hItems, storeOps,
                   total_written, total_days, hExit>>
    /\ UNCHANGED <<codecVars, rangesVars, auditVars, rerunVars, execVars, loopVars, idxVars>>

\* the same command is given again once the first run has ended: a new
\* process starts main on the store and the ledger the first one left
RepairAgain ==
    /\ hpc \in {"done", "exit"} /\ run = 1
    /\ run' = 2
    /\ firstRun' = [dirs |-> storeDirs, data |-> storeData, written |-> total_written,
                    days |-> total_days, exit |-> hExit, ended |-> hpc]
    /\ hpc' = "start"
    /\ per_day' = <<>> /\ dates' = <<>> /\ hItems' = <<>> /\ storeOps' = <<>>
    /\ total_written' = 0 /\ total_days' = 0 /\ hExit' = 0
    /\ UNCHANGED <<hArgs, source, idxExists, storeData, auditVars>>
    /\ UNCHANGED <<codecVars, rangesVars, execVars, loopVars, idxVars>>

NextRerun ==
    \/ RepairNoCsv \/ RepairNothing \/ RepairPlan
    \/ WriteDateRaises \/ WriteDateSkips \/ WriteDateWrites
    \/ RepairSummary \/ RepairAgain

NextRepair ==
    \/ RepairNoCsv \/ RepairNothing \/ RepairPlan
    \/ WriteDateRaises \/ WriteDateSkips \/ WriteDateWrites
    \/ RepairSummary

----------------------------------------------------------------------------
(* The range report as text, and the tools that read it back:               *)
(* rebuild_missing_from_ranges ("rebuild") and run_missing_days_fast ("fast")*)

\* a line of text is the list of its tokens, white space left out: a number
\* is [k |-> "num", v |-> <<n>>], a calendar string [k |-> "iso", v |-> fields],
\* any other word or sign [k |-> the word, v |-> <<>>]
NumTok(n) == [k |-> "num", v |-> <<n>>]
IsoTok(iso) == [k |-> "iso", v |-> iso]
WordTok(w) == [k |-> w, v |-> <<>>]

\* audit_missing_hours.main, lines 121-122: the f-string of one range line
AuditLine(r) ==
    << NumTok(r.a), WordTok(".."), NumTok(r.b), WordTok("|"),
       IsoTok(r.iso_a), WordTok(".."), IsoTok(r.iso_b),
       WordTok("("), NumTok(r.hours), WordTok("hours"), WordTok(")") >>

\* audit_missing_hours.main, lines 110-119: the lines printed before the ranges
InfoLine == << WordTok("[INFO]"), WordTok("Contiguous"), WordTok("missing"), WordTok("ranges:") >>

\* the part of both RANGE_RE that is the same: ^\s*(\d+)\s*\.\.\s*(\d+)\s*\|\s*
\* <date> \s*\.\.\s* <date> \s*\(\d+\s*hours\)\s*$
RangeLineShape(line) ==
    /\ Len(line) = 11
    /\ line[1].k = "num" /\ line[2].k = ".." /\ line[3].k = "num" /\ line[4].k = "|"
    /\ line[5].k = "iso" /\ line[6].k = ".." /\ line[7].k = "iso"
    /\ line[8].k = "(" /\ line[9].k = "num" /\ line[10].k = "hours" /\ line[11].k = ")"

\* rebuild_missing_from_ranges.RANGE_RE: the dates are ([0-9:\-\s]+), any run
\* of digits, colons, dashes and blanks
RANGE_RE_rebuild(line) ==
    /\ RangeLineShape(line)
    /\ Len(line[5].v) >= 1 /\ Len(line[7].v) >= 1

\* run_missing_days_fast.RANGE_RE: the dates are
\* (\d{4}-\d{2}-\d{2}\s+\d{2}:\d{2}:\d{2})
RANGE_RE_fast(line) ==
    /\ RangeLineShape(line)
    /\ Len(line[5].v) = 6 /\ Len(line[7].v) = 6

\* variant: the first index is returned for both ends of a range
parse_ranges_first_only(file) ==
    LET Matches(line) == RANGE_RE_rebuild(line)
        lines == SelectSeq(file, Matches)
    IN  [i \in 1..Len(lines) |-> <<lines[i][1].v[1], lines[i][1].v[1]>>]

\* rebuild_missing_from_ranges.parse_ranges, lines 20-29: the list of
\* (start_idx, end_idx) of the lines that match
parse_ranges(file) ==
    LET Matches(line) == RANGE_RE_rebuild(line)
        lines == SelectSeq(file, Matches)
    IN  [i \in 1..Len(lines) |-> <<lines[i][1].v[1], lines[i][3].v[1]>>]

\* datetime < datetime
DatetimeLT(a, b) == datetime64(strftime(a)) < datetime64(strftime(b))

\* run_missing_days_fast.parse_ranges, lines 18-27: the list of (s, e)
parse_ranges_fast(file) ==
    LET Matches(line) == RANGE_RE_fast(line)
        lines == SelectSeq(file, Matches)
        Pair(line) == LET s == strptime(line[5].v)
                          e == strptime(line[7].v)
                      IN  IF DatetimeLT(e, s) THEN <<e, s>> ELSE <<s, e>>
    IN  [i \in 1..Len(lines) |-> Pair(lines[i])]

\* d.isoformat() of a date
isoformat(d) == <<d.year, d.month, d.day>>

\* str < str on "YYYY-MM-DD"
IsoDayLT(a, b) ==
    \/ a[1] < b[1]
    \/ a[1] = b[1] /\ a[2] < b[2]
    \/ a[1] = b[1] /\ a[2] = b[2] /\ a[3] < b[3]

\* sorted(days) on a set of "YYYY-MM-DD"
RECURSIVE SortedIsoDays(_)
SortedIsoDays(S) ==
    IF S = {} THEN <<>>
    ELSE LET lo == CHOOSE x \in S : \A y \in S : x = y \/ IsoDayLT(x, y)
         IN  <<lo>> \o SortedIsoDays(S \ {lo})

\* variant: the day of the first hour of each range only
unique_days_from_hours_first_day(ranges) ==
    SortedIsoDays({ isoformat(DateOf(dt_from_hour_index(ranges[i][1]))) : i \in 1..Len(ranges) })

\* rebuild_missing_from_ranges.unique_days_from_hours
unique_days_from_hours(ranges) ==
    LET hours == expand_hours(ranges)
    IN  SortedIsoDays({ isoformat(DateOf(dt_from_hour_index(hours[i]))) : i \in 1..Len(hours) })

\* rebuild_missing_from_ranges.write_missing_lists, lines 57-60: the days file
write_missing_lists_days(ranges) ==
    [exists |-> TRUE, lines |-> unique_days_from_hours(ranges)]

\* d + timedelta(days=1)
NextDay(d) ==
    IF d.day < DaysInMonth(d.year, d.month) THEN [d EXCEPT !.day = d.day + 1]
    ELSE IF d.month < 12 THEN [year |-> d.year, month |-> d.month + 1, day |-> 1]
    ELSE [year |-> d.year + 1, month |-> 1, day |-> 1]

\* run_missing_days_fast.days_from_ranges, lines 36-39: the days from d to last
RECURSIVE DaysUpTo(_, _)
DaysUpTo(d, last) ==
    IF DateLT(last, d) THEN {} ELSE {d} \cup DaysUpTo(NextDay(d), last)

\* run_missing_days_fast.days_from_ranges
days_from_ranges(ranges) ==
    SortedDates(UNION { DaysUpTo(DateOf(ranges[i][1]), DateOf(ranges[i][2])) : i \in 1..Len(ranges) })

\* run_missing_days_fast.group_days_by_month: the dict (year, month) -> sorted
\* list of days
group_days_by_month(days) ==
    LET keys == { <<days[i].year, days[i].month>> : i \in 1..Len(days) }
    IN  [k \in keys |->
            SortedDates({ days[i] : i \in { j \in 1..Len(days) :
                                              days[j].year = k[1] /\ days[j].month = k[2] } })]

\* run_missing_days_fast.main, lines 179-180: one tuple per key of groups, in
\* the order the keys were inserted, that of the first day of each month
RECURSIVE WorkOf(_, _, _)
WorkOf(days, groups, seen) ==
    IF days = <<>> THEN <<>>
    ELSE LET k == <<days[1].year, days[1].month>>
         IN  IF k \in seen THEN WorkOf(Tail(days), groups, seen)
             ELSE <<[year |-> k[1], month |-> k[2], days |-> groups[k]]>>
                  \o WorkOf(Tail(days), groups, seen \cup {k})

\* what the actions of the two tools leave alone
execFrame == <<codecVars, rangesVars, repairVars, rerunVars, loopVars, idxVars>>

\* rebuild main, line 124: parse_ranges found no range line, exit code 2
RebuildNoRanges ==
    /\ xpc = "start" /\ xArgs.tool = "rebuild"
    /\ parse_ranges(rfile) = <<>>
    /\ xpc' = "exit"
    /\ xExit' = 2
    /\ UNCHANGED <<execIn, execPlan, execRun, auditVars, execFrame>>

\* rebuild main, lines 124-128: the ranges are parsed and both ledgers written
RebuildLists ==
    /\ xpc = "start" /\ xArgs.tool = "rebuild"
    /\ \E ranges \in {parse_ranges(rfile)} :
          /\ ranges # <<>>
          /\ xranges' = ranges
          /\ csv' = write_missing_lists_csv(ranges)
          /\ days_txt' = write_missing_lists_days(ranges)
          /\ xwork' = unique_days_from_hours(ranges)
    /\ xpc' = "listed"
    /\ UNCHANGED <<execIn, xdays, execRun, xExit, execFrame>>
    /\ UNCHANGED <<storeDirs, apc, argStart, argEnd, exitCode, expected, missing, rangeLines>>

\* rebuild main, line 130: without --execute main returns
RebuildReturns ==
    /\ xpc = "listed" /\ ~xArgs.execute
    /\ xpc' = "done"
    /\ UNCHANGED <<execIn, execPlan, execRun, xExit, auditVars, execFrame>>

\* rebuild main, lines 131-133: --execute without a usable --cmd, exit code 3
RebuildBadCmd ==
    /\ xpc = "listed" /\ xArgs.execute /\ ~xArgs.cmd_ok
    /\ xpc' = "exit"
    /\ xExit' = 3
    /\ UNCHANGED <<execIn, execPlan, execRun, auditVars, execFrame>>

\* rebuild main, lines 134-135: run_for_days is called
RebuildExecute ==
    /\ xpc = "listed" /\ xArgs.execute /\ xArgs.cmd_ok
    /\ xpc' = "run"
    /\ UNCHANGED <<execIn, execPlan, execRun, xExit, auditVars, execFrame>>

\* one(day), lines 73-81: the return code of the command of the item at
\* position i
ReturnCode(i) == IF xwork[i] \in failing THEN 1 ELSE 0

\* run_for_days, lines 85-88, jobs <= 1: the next day is run and its result kept
RunDay ==
    /\ xpc = "run" /\ xArgs.tool = "rebuild" /\ xArgs.jobs <= 1
    /\ Len(xresults) < Len(xwork)
    /\ \E i \in {Len(xresults) + 1} :
          /\ ~(xArgs.stop_on_error /\ ReturnCode(i) # 0)
          /\ xstarted' = Append(xstarted, i)
          /\ xresults' = Append(xresults, [item |-> i, rc |-> ReturnCode(i)])
    /\ UNCHANGED <<xpc, execIn, execPlan, xrunning, xcompleted, xstopAt, xExit, auditVars, execFrame>>

\* run_for_days, lines 85-91, jobs <= 1: the day fails under --stop-on-error,
\* the loop is left
RunDayStops ==
    /\ xpc = "run" /\ xArgs.tool = "rebuild" /\ xArgs.jobs <= 1
    /\ Len(xresults) < Len(xwork)
    /\ \E i \in {Len(xresults) + 1} :
          /\ xArgs.stop_on_error /\ ReturnCode(i) # 0
          /\ xstarted' = Append(xstarted, i)
          /\ xresults' = Append(xresults, [item |-> i, rc |-> ReturnCode(i)])
          /\ xstopAt' = Len(xstarted) + 1
    /\ xpc' = "done"
    /\ UNCHANGED <<execIn, execPlan, xrunning, xcompleted, xExit, auditVars, execFrame>>

\* variant: the loop is left one day before the last
RunReturns_early ==
    /\ xpc = "run" /\ xArgs.tool = "rebuild" /\ xArgs.jobs <= 1
    /\ Len(xresults) + 1 >= Len(xwork)
    /\ xpc' = "done"
    /\ UNCHANGED <<execIn, execPlan, execRun, xExit, auditVars, execFrame>>

\* run_for_days, line 104, jobs <= 1: every day was run
RunReturns ==
    /\ xpc = "run" /\ xArgs.tool = "rebuild" /\ xArgs.jobs <= 1
    /\ Len(xresults) = Len(xwork)
    /\ xpc' = "done"
    /\ UNCHANGED <<execIn, execPlan, execRun, xExit, auditVars, execFrame>>

\* variant: the pool starts a worker for every item submitted
WorkerFree_unbounded(running, jobs) == TRUE

\* ThreadPoolExecutor(max_workers=jobs), ProcessPoolExecutor(max_workers=
\* args.jobs): an item waits until fewer than jobs items are running
WorkerFree(running, jobs) == Cardinality(running) < jobs

\* ThreadPoolExecutor, lines 93-94: every day was submitted when the pool was
\* entered; a free worker takes the oldest one waiting
PoolStart ==
    /\ xpc \in {"run", "shutdown"} /\ xArgs.tool = "rebuild" /\ xArgs.jobs > 1
    /\ WorkerFree(xrunning, xArgs.jobs)
    /\ Len(xstarted) < Len(xwork)
    /\ xstarted' = Append(xstarted, Len(xstarted) + 1)
    /\ xrunning' = xrunning \cup {Len(xstarted) + 1}
    /\ UNCHANGED <<xpc, execIn, execPlan, xcompleted, xresults, xstopAt, xExit, auditVars, execFrame>>

\* a worker's one(day) returns: the future is done
PoolFinish ==
    /\ xpc \in {"run", "shutdown"} /\ xArgs.tool = "rebuild" /\ xArgs.jobs > 1
    /\ \E i \in xrunning :
          /\ xcompleted' = Append(xcompleted, [item |-> i, rc |-> ReturnCode(i)])
          /\ xrunning' = xrunning \ {i}
    /\ UNCHANGED <<xpc, execIn, execPlan, xstarted, xresults, xstopAt, xExit, auditVars, execFrame>>

\* run_for_days, lines 95-99: as_completed hands the next future done to the
\* main thread, which keeps its result
PoolTake ==
    /\ xpc = "run" /\ xArgs.tool = "rebuild" /\ xArgs.jobs > 1
    /\ Len(xresults) < Len(xcompleted)
    /\ \E r \in {xcompleted[Len(xresults) + 1]} :
          /\ ~(xArgs.stop_on_error /\ r.rc # 0)
          /\ xresults' = Append(xresults, r)
    /\ UNCHANGED <<xpc, execIn, execPlan, xstarted, xrunning, xcompleted, xstopAt, xExit, auditVars, execFrame>>

\* run_for_days, lines 95-103: the result is a failure under --stop-on-error,
\* the loop is left and the with block shuts the pool down, waiting
PoolTakeStops ==
    /\ xpc = "run" /\ xArgs.tool = "rebuild" /\ xArgs.jobs > 1
    /\ Len(xresults) < Len(xcompleted)
    /\ \E r \in {xcompleted[Len(xresults) + 1]} :
          /\ xArgs.stop_on_error /\ r.rc # 0
          /\ xresults' = Append(xresults, r)
    /\ xstopAt' = Len(xstarted)
    /\ xpc' = "shutdown"
    /\ UNCHANGED <<execIn, execPlan, xstarted, xrunning, xcompleted, xExit, auditVars, execFrame>>

\* run_for_days, lines 93-104: the with block is left once every future
\* submitted is done (shutdown(wait=True) cancels none of them)
PoolReturns ==
    /\ xpc \in {"run", "shutdown"} /\ xArgs.tool = "rebuild" /\ xArgs.jobs > 1
    /\ Len(xcompleted) = Len(xwork)
    /\ xpc = "run" => Len(xresults) = Len(xwork)
    /\ xpc' = "done"
    /\ UNCHANGED <<execIn, execPlan, execRun, xExit, auditVars, execFrame>>

\* run_missing_days_fast.month_nc_path: line 64 imports os inside the
\* function, which makes os a local name of the whole function, and line 61
\* reads it before that import has run: every call raises UnboundLocalError
month_nc_path(src, year, month) ==
    [raised |-> "UnboundLocalError", found |-> FALSE]

\* write_month, lines 114-127: the timestamps of the file whose date is one
\* of days
MonthTimes(times_all, days) ==
    LET Marked(t) == DateOf(ToDatetime(t)) \in SeqSet(days)
    IN  SelectSeq(times_all, Marked)

\* write_month, lines 140-143: the loop that writes, and compresses after each
\* write in the mode "per-timestep"
RECURSIVE MonthWriteLoop(_, _)
MonthWriteLoop(ts, compress_mode) ==
    IF ts = <<>> THEN <<>>
    ELSE LET t == abs_time_index_hours_leapaware_fast(ts[1])
             w == <<[op |-> "write", time |-> t, ts |-> ts[1]]>>
             c == IF compress_mode = "per-timestep"
                  THEN <<[op |-> "compress", time |-> t, ts |-> ts[1]]>> ELSE <<>>
         IN  w \o c \o MonthWriteLoop(Tail(ts), compress_mode)

\* variant: in the mode "end" the compressions come before the writes
write_month_ops_compress_first(ts, compress_mode) ==
    (IF compress_mode = "end"
     THEN [i \in 1..Len(ts) |->
             [op |-> "compress", time |-> abs_time_index_hours_leapaware_fast(ts[i]), ts |-> ts[i]]]
     ELSE <<>>)
    \o MonthWriteLoop(ts, compress_mode)

\* write_month, lines 140-148: the calls made on the store for the timestamps ts
write_month_ops(ts, compress_mode) ==
    MonthWriteLoop(ts, compress_mode)
    \o (IF compress_mode = "end"
        THEN [i \in 1..Len(ts) |->
                [op |-> "compress", time |-> abs_time_index_hours_leapaware_fast(ts[i]), ts |-> ts[i]]]
        ELSE <<>>)

\* write_month: the exception raised ("" for none) and the calls made on the
\* store
write_month(src, w, compress_mode) ==
    LET nc == month_nc_path(src, w.year, w.month)
    IN  IF nc.raised # "" THEN [raised |-> nc.raised, ops |-> <<>>]
        ELSE IF MonthTimes(FileTimes(src, w.year, w.month), w.days) = <<>>
        THEN [raised |-> "", ops |-> <<>>]
        ELSE [raised |-> "",
              ops |-> write_month_ops(MonthTimes(FileTimes(src, w.year, w.month), w.days),
                                      compress_mode)]

\* fast main, line 170: parse_ranges found no range line, exit code 2
FastNoRanges ==
    /\ xpc = "start" /\ xArgs.tool = "fast"
    /\ parse_ranges_fast(rfile) = <<>>
    /\ xpc' = "exit"
    /\ xExit' = 2
    /\ UNCHANGED <<execIn, execPlan, execRun, auditVars, execFrame>>

\* fast main, lines 170-180: ranges, days, groups and the list of work
FastPlan ==
    /\ xpc = "start" /\ xArgs.tool = "fast"
    /\ \E ranges \in {parse_ranges_fast(rfile)} :
          /\ ranges # <<>>
          /\ xranges' = ranges
          /\ \E days \in {days_from_ranges(ranges)} :
                /\ xdays' = days
                /\ xwork' = WorkOf(days, group_days_by_month(days), {})
    /\ xpc' = "run"
    /\ UNCHANGED <<execIn, days_txt, execRun, xExit, auditVars, execFrame>>

\* fast main, lines 182-184, jobs <= 1: write_month raises on the first tuple
\* and nothing catches it
FastMonthRaises ==
    /\ xpc = "run" /\ xArgs.tool = "fast" /\ xArgs.jobs <= 1
    /\ Len(xstarted) < Len(xwork)
    /\ write_month(source, xwork[Len(xstarted) + 1], xArgs.compress).raised # ""
    /\ xstarted' = Append(xstarted, Len(xstarted) + 1)
    /\ xpc' = "exit"
    /\ xExit' = 1
    /\ UNCHANGED <<execIn, execPlan, xrunning, xcompleted, xresults, xstopAt, auditVars, execFrame>>

\* ProcessPoolExecutor, lines 186-187: every tuple was submitted; a free
\* worker process takes the oldest one waiting
FastPoolStart ==
    /\ xpc \in {"run", "shutdown"} /\ xArgs.tool = "fast" /\ xArgs.jobs > 1
    /\ WorkerFree(xrunning, xArgs.jobs)
    /\ Len(xstarted) < Len(xwork)
    /\ xstarted' = Append(xstarted, Len(xstarted) + 1)
    /\ xrunning' = xrunning \cup {Len(xstarted) + 1}
    /\ UNCHANGED <<xpc, execIn, execPlan, xcompleted, xresults, xstopAt, xExit, auditVars, execFrame>>

\* a worker's write_month raises: the future is done, holding the exception
FastPoolRaises ==
    /\ xpc \in {"run", "shutdown"} /\ xArgs.tool = "fast" /\ xArgs.jobs > 1
    /\ \E i \in xrunning :
          /\ write_month(source, xwork[i], xArgs.compress).raised # ""
          /\ xcompleted' = Append(xcompleted, [item |-> i, rc |-> 1])
          /\ xrunning' = xrunning \ {i}
    /\ UNCHANGED <<xpc, execIn, execPlan, xstarted, xresults, xstopAt, xExit, auditVars, execFrame>>

\* fast main, lines 188-189: fut.result() raises the worker's exception in
\* the main process; the with block shuts the pool down, waiting
FastTakeRaises ==
    /\ xpc = "run" /\ xArgs.tool = "fast" /\ xArgs.jobs > 1
    /\ Len(xresults) < Len(xcompleted)
    /\ xcompleted[Len(xresults) + 1].rc # 0
    /\ xresults' = Append(xresults, xcompleted[Len(xresults) + 1])
    /\ xstopAt' = Len(xstarted)
    /\ xpc' = "shutdown"
    /\ UNCHANGED <<execIn, execPlan, xstarted, xrunning, xcompleted, xExit, auditVars, execFrame>>

\* fast main: every future is done, the exception leaves main
FastExits ==
    /\ xpc = "shutdown" /\ xArgs.tool = "fast" /\ xArgs.jobs > 1
    /\ Len(xcompleted) = Len(xwork)
    /\ xpc' = "exit"
    /\ xExit' = 1
    /\ UNCHANGED <<execIn, execPlan, execRun, auditVars, execFrame>>

NextExec ==
    \/ RebuildNoRanges \/ RebuildLists \/ RebuildReturns \/ RebuildBadCmd \/ RebuildExecute
    \/ RunDay \/ RunDayStops \/ RunReturns
    \/ PoolStart \/ PoolFinish \/ PoolTake \/ PoolTakeStops \/ PoolReturns
    \/ FastNoRanges \/ FastPlan \/ FastMonthRaises
    \/ FastPoolStart \/ FastPoolRaises \/ FastTakeRaises \/ FastExits

\* the hours a range file may list: ExecLen hours from 1940-02-28 23:00, and
\* 1940-03-01 00:00
ExecLen == 3
MaxJobs == 2
ExecUniverse == ((WinBase + 1) .. (WinBase + ExecLen)) \cup {WinBase + 26}
ExecLists ==
    { SortedSeq(S) : S \in (SUBSET ExecUniverse) \ {{}} } \cup {RangeSeq(WinBase + 1, WinBase + 26)}

\* the text the audit prints for the missing list miss
AuditText(miss) ==
    LET lines == RangeLinesOf(contiguous_ranges(miss, 1))
    IN  <<InfoLine>> \o [i \in 1..Len(lines) |-> AuditLine(lines[i])]

\* the same text whose first range line lost its "(N hours)"
CutText(miss) ==
    LET text == AuditText(miss)
    IN  [i \in 1..Len(text) |-> IF i = 2 THEN SubSeq(text[i], 1, 7) ELSE text[i]]

RebuildArgs ==
    [tool : {"rebuild"}, execute : BOOLEAN, cmd_ok : BOOLEAN, jobs : 1..MaxJobs,
     stop_on_error : BOOLEAN, compress : {"none"}]
FastArgs ==
    [tool : {"fast"}, execute : {FALSE}, cmd_ok : {FALSE}, jobs : 1..MaxJobs,
     stop_on_error : {FALSE}, compress : {"none", "per-timestep", "end"}]

----------------------------------------------------------------------------
(* The write loops on their own                                             *)

\* the timestamps handed to a write loop: ascending hours of ExecUniverse
LoopTimes ==
    { [i \in 1..Len(SortedSeq(S)) |-> datetime64(iso_from_hour_index(SortedSeq(S)[i]))] :
        S \in SUBSET ExecUniverse }
LoopInputs ==
    [tool : {"rmh", "rmd"}, times : LoopTimes, compress : {"none", "per-timestep"}]
    \cup [tool : {"fast"}, times : LoopTimes, compress : {"none", "per-timestep", "end"}]

\* write_missing_for_date of run_missing_hours and run_missing_days: the loop
\* over the hours selected, compress_per_hour being the mode "per-timestep"
LoopDate ==
    /\ lpc = "in" /\ lin.tool \in {"rmh", "rmd"}
    /\ lout' = WriteOps(lin.times, lin.tool, lin.compress = "per-timestep")
    /\ lpc' = "out"
    /\ UNCHANGED <<lin, codecVars, rangesVars, auditVars, repairVars, rerunVars, execVars, idxVars>>

\* write_month of run_missing_days_fast: the loop over the hours of the month
LoopMonth ==
    /\ lpc = "in" /\ lin.tool = "fast"
    /\ lout' = write_month_ops(lin.times, lin.compress)
    /\ lpc' = "out"
    /\ UNCHANGED <<lin, codecVars, rangesVars, auditVars, repairVars, rerunVars, execVars, idxVars>>

NextLoop == LoopDate \/ LoopMonth

----------------------------------------------------------------------------
(* The time window of the store and the indices written into it            *)

\* TIME_START of every script that creates a store
TIME_START == BASE_YEAR * 365 * 24 + 1

\* TIME_END of the script that creates the store: daily_era5_2t ("daily",
\* line 93), era5_sfc_2t ("sfc", line 29), run_missing_hours ("rmh", line
\* 119), run_missing_days ("rmd", line 108)
TIME_END(script) ==
    IF script \in {"rmh", "rmd"} THEN 2101 * 366 * 24 ELSE 2031 * 366 * 24

\* the timestamps handed to the writers: the first and the last hours of the
\* first, middle and last months of the epoch year, of 2030, of 2036 and of
\* 2100
WindowYears == {BASE_YEAR, 2030, 2036, 2100}
WindowStamps ==
    { t \in [year : WindowYears, month : {1, 6, 7, 12}, day : {1, 30, 31}, hour : {0, 23},
             minute : {0}, second : {0}] : t.day <= DaysInMonth(t.year, t.month) }

\* the scripts whose ensure_idx is reached with the store absent, and whose
\* write loop is reached (write_month of run_missing_days_fast raises before
\* its ensure_idx and its loop)
EnsureScripts == {"daily", "rmh", "rmd"}

\* ensure_idx: the store does not exist, CreateIdx is called with the
\* script's window
EnsureIdxCreates ==
    /\ wpc = "absent"
    /\ \E script \in EnsureScripts :
          wstore' = [creator |-> script, TIME_START |-> TIME_START, TIME_END |-> TIME_END(script)]
    /\ wpc' = "created"
    /\ UNCHANGED <<wts, wcall>>
    /\ UNCHANGED <<codecVars, rangesVars, auditVars, repairVars, rerunVars, execVars, loopVars, scanVars, rootIsDir, raceVars>>

\* era5_sfc_2t, lines 96-103: the script creates the store when it starts
SfcCreates ==
    /\ wpc = "absent"
    /\ wstore' = [creator |-> "sfc", TIME_START |-> TIME_START, TIME_END |-> TIME_END("sfc")]
    /\ wpc' = "created"
    /\ UNCHANGED <<wts, wcall>>
    /\ UNCHANGED <<codecVars, rangesVars, auditVars, repairVars, rerunVars, execVars, loopVars, scanVars, rootIsDir, raceVars>>

\* the write loops of daily_era5_2t, run_missing_hours and run_missing_days:
\* ensure_idx has opened the store, whoever created it, and the slice is
\* written at the index of its timestamp; no script compares the index with
\* the window
WriterWrites ==
    /\ wpc = "created"
    /\ \E writer \in EnsureScripts :
          wcall' = [writer |-> writer, time |-> Encoders(wts)[writer]]
    /\ wpc' = "written"
    /\ UNCHANGED <<wts, wstore>>
    /\ UNCHANGED <<codecVars, rangesVars, auditVars, repairVars, rerunVars, execVars, loopVars, scanVars, rootIsDir, raceVars>>

\* write_file_to_idx of era5_sfc_2t, lines 124-141, on the store the script
\* created: the indices are compared with the script's window first
SfcWrites ==
    /\ wpc = "created" /\ wstore.creator = "sfc"
    /\ \E t \in {Encoders(wts).sfc} :
          /\ ~(t < TIME_START \/ t > TIME_END("sfc"))
          /\ wcall' = [writer |-> "sfc", time |-> t]
    /\ wpc' = "written"
    /\ UNCHANGED <<wts, wstore>>
    /\ UNCHANGED <<codecVars, rangesVars, auditVars, repairVars, rerunVars, execVars, loopVars, scanVars, rootIsDir, raceVars>>

\* write_file_to_idx, lines 129-133: RuntimeError, nothing is written
SfcGuardRaises ==
    /\ wpc = "created" /\ wstore.creator = "sfc"
    /\ \E t \in {Encoders(wts).sfc} : t < TIME_START \/ t > TIME_END("sfc")
    /\ wpc' = "raised"
    /\ UNCHANGED <<wts, wstore, wcall>>
    /\ UNCHANGED <<codecVars, rangesVars, auditVars, repairVars, rerunVars, execVars, loopVars, scanVars, rootIsDir, raceVars>>

NextWindow ==
    \/ EnsureIdxCreates \/ SfcCreates \/ WriterWrites \/ SfcWrites \/ SfcGuardRaises

----------------------------------------------------------------------------
(* The scan of a store root                                                 *)

\* names a root may hold: "7", "07", "12", "8" followed by a line feed,
\* "time_7" and "visus.idx"
ScanNames ==
    { <<"7">>, <<"0", "7">>, <<"1", "2">>, <<"8", "\n">>,
      <<"t", "i", "m", "e", "_", "7">>,
      <<"v", "i", "s", "u", "s", ".", "i", "d", "x">> }

\* the roots: every name is absent, a directory or a regular file
ScanRoots ==
    { { [name |-> x, isdir |-> kind[x] = "dir"] : x \in { y \in ScanNames : kind[y] # "absent" } } :
        kind \in [ScanNames -> {"absent", "dir", "file"}] }

\* os.listdir(idx_root): the names, of directories and of files alike
listdir(root) == { e.name : e \in root }

\* present = parse_present_indices(idx_root), line 84
ScanRoot ==
    /\ npc = "in"
    /\ npresent' = parse_present_indices(listdir(nroot))
    /\ npc' = "out"
    /\ UNCHANGED nroot
    /\ UNCHANGED <<codecVars, rangesVars, auditVars, repairVars, rerunVars, execVars, loopVars,
                   windowVars, rootIsDir, raceVars>>

NextScan == ScanRoot

----------------------------------------------------------------------------
(* Specifications                                                          *)

InitSpecCodec ==
    /\ \/ \E t \in Timestamps : cin = [kind |-> "ts", v |-> t]
       \/ \E i \in IndexInputs : cin = [kind |-> "idx", v |-> i]
    /\ cpc = "in" /\ cmid = None /\ cout = None
    /\ rpc = "idle" /\ rin = <<>> /\ rranges = <<>> /\ rexp = <<>> /\ rre = <<>>
    /\ storeDirs = {} /\ csv = NoLedger /\ apc = "idle"
    /\ argStart = <<>> /\ argEnd = <<>> /\ exitCode = 0
    /\ expected = <<>> /\ missing = <<>> /\ rangeLines = <<>>
    /\ hpc = "idle" /\ hArgs = None /\ source = None /\ idxExists = TRUE
    /\ per_day = <<>> /\ dates = <<>> /\ hItems = <<>> /\ storeOps = <<>>
    /\ total_written = 0 /\ total_days = 0 /\ hExit = 0
    /\ run = 1 /\ firstRun = None /\ storeData = [t \in storeDirs |-> 0]
    /\ xpc = "idle" /\ xArgs = None /\ rfile = <<>> /\ xranges = <<>> /\ xdays = <<>>
    /\ days_txt = [exists |-> FALSE, lines |-> <<>>]
    /\ xwork = <<>> /\ failing = {} /\ xstarted = <<>> /\ xrunning = {}
    /\ xcompleted = <<>> /\ xresults = <<>> /\ xstopAt = -1 /\ xExit = 0
    /\ lpc = "idle" /\ lin = None /\ lout = <<>>
    /\ wpc = "idle" /\ wts = None /\ wstore = None /\ wcall = None
    /\ npc = "idle" /\ nroot = {} /\ npresent = <<>>
    /\ rootIsDir = TRUE /\ qpc = <<>> /\ qseen = <<>> /\ qlog = <<>>

SpecCodec == InitSpecCodec /\ [][NextCodec]_vars

InitSpecRanges ==
    /\ cpc = "idle" /\ cin = None /\ cmid = None /\ cout = None
    /\ rpc = "in"
    /\ rin \in RangeInputs
    /\ rranges = <<>> /\ rexp = <<>> /\ rre = <<>>
    /\ storeDirs = {} /\ csv = NoLedger /\ apc = "idle"
    /\ argStart = <<>> /\ argEnd = <<>> /\ exitCode = 0
    /\ expected = <<>> /\ missing = <<>> /\ rangeLines = <<>>
    /\ hpc = "idle" /\ hArgs = None /\ source = None /\ idxExists = TRUE
    /\ per_day = <<>> /\ dates = <<>> /\ hItems = <<>> /\ storeOps = <<>>
    /\ total_written = 0 /\ total_days = 0 /\ hExit = 0
    /\ run = 1 /\ firstRun = None /\ storeData = [t \in storeDirs |-> 0]
    /\ xpc = "idle" /\ xArgs = None /\ rfile = <<>> /\ xranges = <<>> /\ xdays = <<>>
    /\ days_txt = [exists |-> FALSE, lines |-> <<>>]
    /\ xwork = <<>> /\ failing = {} /\ xstarted = <<>> /\ xrunning = {}
    /\ xcompleted = <<>> /\ xresults = <<>> /\ xstopAt = -1 /\ xExit = 0
    /\ lpc = "idle" /\ lin = None /\ lout = <<>>
    /\ wpc = "idle" /\ wts = None /\ wstore = None /\ wcall = None
    /\ npc = "idle" /\ nroot = {} /\ npresent = <<>>
    /\ rootIsDir = TRUE /\ qpc = <<>> /\ qseen = <<>> /\ qlog = <<>>

SpecRanges == InitSpecRanges /\ [][NextRanges]_vars

Init ==
    /\ cpc = "idle" /\ cin = None /\ cmid = None /\ cout = None
    /\ rpc = "idle" /\ rin = <<>> /\ rranges = <<>> /\ rexp = <<>> /\ rre = <<>>
    /\ \/ /\ rootIsDir = TRUE
          /\ storeDirs \in SUBSET Window
       \/ /\ rootIsDir = FALSE
          /\ storeDirs = {}
    /\ csv \in {NoLedger, OldLedger}
    /\ apc = "start"
    /\ argStart \in StartChoices
    /\ argEnd \in EndChoices
    /\ exitCode = 0
    /\ expected = <<>> /\ missing = <<>> /\ rangeLines = <<>>
    /\ hpc = "idle" /\ hArgs = None /\ source = None /\ idxExists = TRUE
    /\ per_day = <<>> /\ dates = <<>> /\ hItems = <<>> /\ storeOps = <<>>
    /\ total_written = 0 /\ total_days = 0 /\ hExit = 0
    /\ run = 1 /\ firstRun = None /\ storeData = [t \in storeDirs |-> 0]
    /\ xpc = "idle" /\ xArgs = None /\ rfile = <<>> /\ xranges = <<>> /\ xdays = <<>>
    /\ days_txt = [exists |-> FALSE, lines |-> <<>>]
    /\ xwork = <<>> /\ failing = {} /\ xstarted = <<>> /\ xrunning = {}
    /\ xcompleted = <<>> /\ xresults = <<>> /\ xstopAt = -1 /\ xExit = 0
    /\ lpc = "idle" /\ lin = None /\ lout = <<>>
    /\ wpc = "idle" /\ wts = None /\ wstore = None /\ wcall = None
    /\ npc = "idle" /\ nroot = {} /\ npresent = <<>>
    /\ qpc = <<>> /\ qseen = <<>> /\ qlog = <<>>

Next == NextAudit

\* a repair run: the store holds the indices of the ledger universe that are
\* not missing, and the ledger of the missing ones was written by the audit
\* or by write_missing_lists from the audit's ranges
InitSpecRepair ==
    /\ cpc = "idle" /\ cin = None /\ cmid = None /\ cout = None
    /\ rpc = "idle" /\ rin = <<>> /\ rranges = <<>> /\ rexp = <<>> /\ rre = <<>>
    /\ \/ /\ missing = <<>>
          /\ csv = NoLedger
       \/ /\ missing \in LedgerLists
          /\ csv \in {LedgerOf(missing), write_missing_lists_csv(contiguous_ranges(missing, 1))}
    /\ storeDirs = LedgerUniverse \ SeqSet(missing)
    /\ idxExists = (storeDirs # {})
    /\ apc = "idle" /\ argStart = <<>> /\ argEnd = <<>> /\ exitCode = 0
    /\ expected = <<>> /\ rangeLines = <<>>
    /\ hpc = "start"
    /\ hArgs \in RepairArgs
    /\ source \in SourceChoices
    /\ per_day = <<>> /\ dates = <<>> /\ hItems = <<>> /\ storeOps = <<>>
    /\ total_written = 0 /\ total_days = 0 /\ hExit = 0
    /\ run = 1 /\ firstRun = None /\ storeData = [t \in storeDirs |-> 0]
    /\ xpc = "idle" /\ xArgs = None /\ rfile = <<>> /\ xranges = <<>> /\ xdays = <<>>
    /\ days_txt = [exists |-> FALSE, lines |-> <<>>]
    /\ xwork = <<>> /\ failing = {} /\ xstarted = <<>> /\ xrunning = {}
    /\ xcompleted = <<>> /\ xresults = <<>> /\ xstopAt = -1 /\ xExit = 0
    /\ lpc = "idle" /\ lin = None /\ lout = <<>>
    /\ wpc = "idle" /\ wts = None /\ wstore = None /\ wcall = None
    /\ npc = "idle" /\ nroot = {} /\ npresent = <<>>
    /\ rootIsDir = TRUE /\ qpc = <<>> /\ qseen = <<>> /\ qlog = <<>>

SpecRepair == InitSpecRepair /\ [][NextRepair]_vars

\* a repair run that is given a second time; the ledger lists hours of
\* ExecUniverse
InitSpecRerun ==
    /\ cpc = "idle" /\ cin = None /\ cmid = None /\ cout = None
    /\ rpc = "idle" /\ rin = <<>> /\ rranges = <<>> /\ rexp = <<>> /\ rre = <<>>
    /\ \/ /\ missing = <<>>
          /\ csv = NoLedger
       \/ /\ missing \in ExecLists
          /\ csv = LedgerOf(missing)
    /\ storeDirs = ExecUniverse \ SeqSet(missing)
    /\ idxExists = (storeDirs # {})
    /\ apc = "idle" /\ argStart = <<>> /\ argEnd = <<>> /\ exitCode = 0
    /\ expected = <<>> /\ rangeLines = <<>>
    /\ hpc = "start"
    /\ hArgs \in RepairArgs
    /\ source \in SourceChoices
    /\ per_day = <<>> /\ dates = <<>> /\ hItems = <<>> /\ storeOps = <<>>
    /\ total_written = 0 /\ total_days = 0 /\ hExit = 0
    /\ run = 1 /\ firstRun = None /\ storeData = [t \in storeDirs |-> 0]
    /\ xpc = "idle" /\ xArgs = None /\ rfile = <<>> /\ xranges = <<>> /\ xdays = <<>>
    /\ days_txt = [exists |-> FALSE, lines |-> <<>>]
    /\ xwork = <<>> /\ failing = {} /\ xstarted = <<>> /\ xrunning = {}
    /\ xcompleted = <<>> /\ xresults = <<>> /\ xstopAt = -1 /\ xExit = 0
    /\ lpc = "idle" /\ lin = None /\ lout = <<>>
    /\ wpc = "idle" /\ wts = None /\ wstore = None /\ wcall = None
    /\ npc = "idle" /\ nroot = {} /\ npresent = <<>>
    /\ rootIsDir = TRUE /\ qpc = <<>> /\ qseen = <<>> /\ qlog = <<>>

SpecRerun == InitSpecRerun /\ [][NextRerun]_vars

Spec == Init /\ [][Next]_vars

\* a run of rebuild_missing_from_ranges or of run_missing_days_fast on the
\* text of an audit
InitSpecExec ==
    /\ cpc = "idle" /\ cin = None /\ cmid = None /\ cout = None
    /\ rpc = "idle" /\ rin = <<>> /\ rranges = <<>> /\ rexp = <<>> /\ rre = <<>>
    /\ \/ /\ missing = <<>>
          /\ rfile = <<InfoLine>>
       \/ /\ missing \in ExecLists
          /\ rfile \in {AuditText(missing), CutText(missing)}
    /\ storeDirs = ExecUniverse \ SeqSet(missing)
    /\ storeData = [t \in storeDirs |-> 0]
    /\ idxExists = (storeDirs # {})
    /\ csv = NoLedger
    /\ apc = "idle" /\ argStart = <<>> /\ argEnd = <<>> /\ exitCode = 0
    /\ expected = <<>> /\ rangeLines = <<>>
    /\ hpc = "idle" /\ hArgs = None
    /\ per_day = <<>> /\ dates = <<>> /\ hItems = <<>> /\ storeOps = <<>>
    /\ total_written = 0 /\ total_days = 0 /\ hExit = 0
    /\ run = 1 /\ firstRun = None
    /\ xpc = "start"
    /\ \/ /\ xArgs \in RebuildArgs
          /\ failing \in SUBSET { isoformat(d) : d \in RepairDates }
          /\ source = None
       \/ /\ xArgs \in FastArgs
          /\ failing = {}
          /\ source \in SourceChoices
    /\ xranges = <<>> /\ xdays = <<>>
    /\ days_txt = [exists |-> FALSE, lines |-> <<>>]
    /\ xwork = <<>> /\ xstarted = <<>> /\ xrunning = {}
    /\ xcompleted = <<>> /\ xresults = <<>> /\ xstopAt = -1 /\ xExit = 0
    /\ lpc = "idle" /\ lin = None /\ lout = <<>>
    /\ wpc = "idle" /\ wts = None /\ wstore = None /\ wcall = None
    /\ npc = "idle" /\ nroot = {} /\ npresent = <<>>
    /\ rootIsDir = TRUE /\ qpc = <<>> /\ qseen = <<>> /\ qlog = <<>>

SpecExec == InitSpecExec /\ [][NextExec]_vars

InitSpecLoop ==
    /\ cpc = "idle" /\ cin = None /\ cmid = None /\ cout = None
    /\ rpc = "idle" /\ rin = <<>> /\ rranges = <<>> /\ rexp = <<>> /\ rre = <<>>
    /\ storeDirs = {} /\ csv = NoLedger /\ apc = "idle"
    /\ argStart = <<>> /\ argEnd = <<>> /\ exitCode = 0
    /\ expected = <<>> /\ missing = <<>> /\ rangeLines = <<>>
    /\ hpc = "idle" /\ hArgs = None /\ source = None /\ idxExists = TRUE
    /\ per_day = <<>> /\ dates = <<>> /\ hItems = <<>> /\ storeOps = <<>>
    /\ total_written = 0 /\ total_days = 0 /\ hExit = 0
    /\ run = 1 /\ firstRun = None /\ storeData = <<>>
    /\ xpc = "idle" /\ xArgs = None /\ rfile = <<>> /\ xranges = <<>> /\ xdays = <<>>
    /\ days_txt = [exists |-> FALSE, lines |-> <<>>]
    /\ xwork = <<>> /\ failing = {} /\ xstarted = <<>> /\ xrunning = {}
    /\ xcompleted = <<>> /\ xresults = <<>> /\ xstopAt = -1 /\ xExit = 0
    /\ lpc = "in"
    /\ lin \in LoopInputs
    /\ lout = <<>>
    /\ wpc = "idle" /\ wts = None /\ wstore = None /\ wcall = None
    /\ npc = "idle" /\ nroot = {} /\ npresent = <<>>
    /\ rootIsDir = TRUE /\ qpc = <<>> /\ qseen = <<>> /\ qlog = <<>>

SpecLoop == InitSpecLoop /\ [][NextLoop]_vars

\* one slice is written into a store that does not exist yet
InitSpecWindow ==
    /\ cpc = "idle" /\ cin = None /\ cmid = None /\ cout = None
    /\ rpc = "idle" /\ rin = <<>> /\ rranges = <<>> /\ rexp = <<>> /\ rre = <<>>
    /\ storeDirs = {} /\ csv = NoLedger /\ apc = "idle"
    /\ argStart = <<>> /\ argEnd = <<>> /\ exitCode = 0
    /\ expected = <<>> /\ missing = <<>> /\ rangeLines = <<>>
    /\ hpc = "idle" /\ hArgs = None /\ source = None /\ idxExists = TRUE
    /\ per_day = <<>> /\ dates = <<>> /\ hItems = <<>> /\ storeOps = <<>>
    /\ total_written = 0 /\ total_days = 0 /\ hExit = 0
    /\ run = 1 /\ firstRun = None /\ storeData = <<>>
    /\ xpc = "idle" /\ xArgs = None /\ rfile = <<>> /\ xranges = <<>> /\ xdays = <<>>
    /\ days_txt = [exists |-> FALSE, lines |-> <<>>]
    /\ xwork = <<>> /\ failing = {} /\ xstarted = <<>> /\ xrunning = {}
    /\ xcompleted = <<>> /\ xresults = <<>> /\ xstopAt = -1 /\ xExit = 0
    /\ lpc = "idle" /\ lin = None /\ lout = <<>>
    /\ wpc = "absent"
    /\ wts \in WindowStamps
    /\ wstore = [creator |-> "", TIME_START |-> 0, TIME_END |-> 0]
    /\ wcall = [writer |-> "", time |-> 0]
    /\ npc = "idle" /\ nroot = {} /\ npresent = <<>>
    /\ rootIsDir = TRUE /\ qpc = <<>> /\ qseen = <<>> /\ qlog = <<>>

SpecWindow == InitSpecWindow /\ [][NextWindow]_vars

\* one root is scanned
InitSpecScan ==
    /\ cpc = "idle" /\ cin = None /\ cmid = None /\ cout = None
    /\ rpc = "idle" /\ rin = <<>> /\ rranges = <<>> /\ rexp = <<>> /\ rre = <<>>
    /\ storeDirs = {} /\ csv = NoLedger /\ apc = "idle"
    /\ argStart = <<>> /\ argEnd = <<>> /\ exitCode = 0
    /\ expected = <<>> /\ missing = <<>> /\ rangeLines = <<>>
    /\ hpc = "idle" /\ hArgs = None /\ source = None /\ idxExists = TRUE
    /\ per_day = <<>> /\ dates = <<>> /\ hItems = <<>> /\ storeOps = <<>>
    /\ total_written = 0 /\ total_days = 0 /\ hExit = 0
    /\ run = 1 /\ firstRun = None /\ storeData = <<>>
    /\ xpc = "idle" /\ xArgs = None /\ rfile = <<>> /\ xranges = <<>> /\ xdays = <<>>
    /\ days_txt = [exists |-> FALSE, lines |-> <<>>]
    /\ xwork = <<>> /\ failing = {} /\ xstarted = <<>> /\ xrunning = {}
    /\ xcompleted = <<>> /\ xresults = <<>> /\ xstopAt = -1 /\ xExit = 0
    /\ lpc = "idle" /\ lin = None /\ lout = <<>>
    /\ wpc = "idle" /\ wts = None /\ wstore = None /\ wcall = None
    /\ npc = "in"
    /\ nroot \in ScanRoots
    /\ npresent = <<>>
    /\ rootIsDir = TRUE /\ qpc = <<>> /\ qseen = <<>> /\ qlog = <<>>

SpecScan == InitSpecScan /\ [][NextScan]_vars

----------------------------------------------------------------------------
(* Several processes of daily_era5_2t, started by the pool of               *)
(* rebuild_missing_from_ranges, on one store. qlog holds the calls made on  *)
(* the store in the order they were made.                                   *)

RaceWorkers == 2

\* os.path.exists(IDX_NAME): the store is there once it was created
StoreExists(log) == \E k \in 1..Len(log) : log[k].op = "create"

\* variant: the test of existence and the creation are one step
ensure_idx_call_atomic(seen, now) == IF now THEN "load" ELSE "create"

\* ensure_idx, lines 74-75 and 96-103: the call made on the store follows from
\* what os.path.exists answered, whatever the store is by the time of the call
ensure_idx_call(seen, now) == IF seen THEN "load" ELSE "create"

\* ensure_idx, line 74: os.path.exists(IDX_NAME)
RaceCheck ==
    \E w \in DOMAIN qpc :
        /\ qpc[w] = "start"
        /\ qpc' = [qpc EXCEPT ![w] = "checked"]
        /\ qseen' = [qseen EXCEPT ![w] = StoreExists(qlog)]
        /\ UNCHANGED qlog
        /\ UNCHANGED <<codecVars, rangesVars, auditVars, repairVars, rerunVars, execVars,
                       loopVars, windowVars, scanVars, rootIsDir>>

\* ensure_idx, lines 75-103: LoadDataset, or the sample is read from the
\* monthly file and CreateIdx is called
RaceEnsure ==
    \E w \in DOMAIN qpc :
        /\ qpc[w] = "checked"
        /\ qpc' = [qpc EXCEPT ![w] = "open"]
        /\ qlog' = Append(qlog, [op |-> ensure_idx_call(qseen[w], StoreExists(qlog)), w |-> w])
        /\ UNCHANGED qseen
        /\ UNCHANGED <<codecVars, rangesVars, auditVars, repairVars, rerunVars, execVars,
                       loopVars, windowVars, scanVars, rootIsDir>>

\* write_one_day, line 145: an hour of the day is written
RaceWrite ==
    \E w \in DOMAIN qpc :
        /\ qpc[w] = "open"
        /\ qpc' = [qpc EXCEPT ![w] = "written"]
        /\ qlog' = Append(qlog, [op |-> "write", w |-> w])
        /\ UNCHANGED qseen
        /\ UNCHANGED <<codecVars, rangesVars, auditVars, repairVars, rerunVars, execVars,
                       loopVars, windowVars, scanVars, rootIsDir>>

\* write_one_day, line 146: the hour is compressed
RaceCompress ==
    \E w \in DOMAIN qpc :
        /\ qpc[w] = "written"
        /\ qpc' = [qpc EXCEPT ![w] = "done"]
        /\ qlog' = Append(qlog, [op |-> "compress", w |-> w])
        /\ UNCHANGED qseen
        /\ UNCHANGED <<codecVars, rangesVars, auditVars, repairVars, rerunVars, execVars,
                       loopVars, windowVars, scanVars, rootIsDir>>

NextRace == RaceCheck \/ RaceEnsure \/ RaceWrite \/ RaceCompress

\* the workers start on a store that is not there yet, or on one an earlier
\* run (worker 0) created
InitSpecRace ==
    /\ cpc = "idle" /\ cin = None /\ cmid = None /\ cout = None
    /\ rpc = "idle" /\ rin = <<>> /\ rranges = <<>> /\ rexp = <<>> /\ rre = <<>>
    /\ storeDirs = {} /\ csv = NoLedger /\ apc = "idle"
    /\ argStart = <<>> /\ argEnd = <<>> /\ exitCode = 0
    /\ expected = <<>> /\ missing = <<>> /\ rangeLines = <<>>
    /\ hpc = "idle" /\ hArgs = None /\ source = None /\ idxExists = TRUE
    /\ per_day = <<>> /\ dates = <<>> /\ hItems = <<>> /\ storeOps = <<>>
    /\ total_written = 0 /\ total_days = 0 /\ hExit = 0
    /\ run = 1 /\ firstRun = None /\ storeData = <<>>
    /\ xpc = "idle" /\ xArgs = None /\ rfile = <<>> /\ xranges = <<>> /\ xdays = <<>>
    /\ days_txt = [exists |-> FALSE, lines |-> <<>>]
    /\ xwork = <<>> /\ failing = {} /\ xstarted = <<>> /\ xrunning = {}
    /\ xcompleted = <<>> /\ xresults = <<>> /\ xstopAt = -1 /\ xExit = 0
    /\ lpc = "idle" /\ lin = None /\ lout = <<>>
    /\ wpc = "idle" /\ wts = None /\ wstore = None /\ wcall = None
    /\ npc = "idle" /\ nroot = {} /\ npresent = <<>>
    /\ rootIsDir = TRUE
    /\ qpc = [w \in 1..RaceWorkers |-> "start"]
    /\ qseen = [w \in 1..RaceWorkers |-> FALSE]
    /\ qlog \in {<<>>, <<[op |-> "create", w |-> 0]>>}

SpecRace == InitSpecRace /\ [][NextRace]_vars

\* one run of any of the command-line tools: the audit, a repair from the
\* ledger, or a tool that starts from the text of an audit
InitSpecTools ==
    /\ cpc = "idle" /\ cin = None /\ cmid = None /\ cout = None
    /\ rpc = "idle" /\ rin = <<>> /\ rranges = <<>> /\ rexp = <<>> /\ rre = <<>>
    /\ \/ /\ \/ /\ rootIsDir = TRUE
                /\ storeDirs \in SUBSET Window
             \/ /\ rootIsDir = FALSE
                /\ storeDirs = {}
          /\ csv \in {NoLedger, OldLedger}
          /\ apc = "start"
          /\ argStart \in StartChoices
          /\ argEnd \in EndChoices
          /\ missing = <<>>
          /\ idxExists = TRUE
          /\ hpc = "idle" /\ hArgs = None /\ source = None
          /\ xpc = "idle" /\ xArgs = None /\ rfile = <<>> /\ failing = {}
       \/ /\ \/ /\ missing = <<>>
                /\ csv = NoLedger
             \/ /\ missing \in ExecLists
                /\ csv = LedgerOf(missing)
          /\ storeDirs = ExecUniverse \ SeqSet(missing)
          /\ idxExists = (storeDirs # {})
          /\ rootIsDir = TRUE
          /\ apc = "idle" /\ argStart = <<>> /\ argEnd = <<>>
          /\ hpc = "start"
          /\ hArgs \in RepairArgs
          /\ source \in SourceChoices
          /\ xpc = "idle" /\ xArgs = None /\ rfile = <<>> /\ failing = {}
       \/ /\ \/ /\ missing = <<>>
                /\ rfile = <<InfoLine>>
             \/ /\ missing \in ExecLists
                /\ rfile \in {AuditText(missing), CutText(missing)}
          /\ storeDirs = ExecUniverse \ SeqSet(missing)
          /\ idxExists = (storeDirs # {})
          /\ rootIsDir = TRUE
          /\ csv = NoLedger
          /\ apc = "idle" /\ argStart = <<>> /\ argEnd = <<>>
          /\ hpc = "idle" /\ hArgs = None
          /\ xpc = "start"
          /\ \/ /\ xArgs \in RebuildArgs
                /\ failing \in SUBSET { isoformat(d) : d \in RepairDates }
                /\ source = None
             \/ /\ xArgs \in FastArgs
                /\ failing = {}
                /\ source \in SourceChoices
    /\ exitCode = 0 /\ expected = <<>> /\ rangeLines = <<>>
    /\ per_day = <<>> /\ dates = <<>> /\ hItems = <<>> /\ storeOps = <<>>
    /\ total_written = 0 /\ total_days = 0 /\ hExit = 0
    /\ run = 1 /\ firstRun = None /\ storeData = [t \in storeDirs |-> 0]
    /\ xranges = <<>> /\ xdays = <<>>
    /\ days_txt = [exists |-> FALSE, lines |-> <<>>]
    /\ xwork = <<>> /\ xstarted = <<>> /\ xrunning = {}
    /\ xcompleted = <<>> /\ xresults = <<>> /\ xstopAt = -1 /\ xExit = 0
    /\ lpc = "idle" /\ lin = None /\ lout = <<>>
    /\ wpc = "idle" /\ wts = None /\ wstore = None /\ wcall = None
    /\ npc = "idle" /\ nroot = {} /\ npresent = <<>>
    /\ qpc = <<>> /\ qseen = <<>> /\ qlog = <<>>

NextTools == NextAudit \/ NextRepair \/ NextExec

SpecTools == InitSpecTools /\ [][NextTools]_vars

----------------------------------------------------------------------------
(* Claims about the codec                                                   *)

\* C1: the codec is a bijection on whole-hour timestamps. Decoding (by either
\* decoder) the index that any encoder gives for a timestamp at or after the
\* epoch returns that timestamp, and encoding the decoding of an index at or
\* above the epoch index returns that index.
C1_RoundTrip ==
    /\ (cpc = "out" /\ cin.kind = "ts") =>
          \A k \in DOMAIN cout :
              /\ cout[k].audit = strftime(cin.v)
              /\ cout[k].rebuild = cin.v
    /\ (cpc = "out" /\ cin.kind = "idx") =>
          /\ cout.audit = cin.v
          /\ cout.rebuild = cin.v

\* a leap day's last hour and an index of 2100 have been taken there and back
C1_Witness ==
    /\ cpc = "out"
    /\ \/ /\ cin.kind = "ts"
          /\ cin.v.year = 2000 /\ cin.v.month = 2 /\ cin.v.day = 29 /\ cin.v.hour = 23
          /\ cout.iso.rebuild = cin.v
       \/ /\ cin.kind = "ts"
          /\ cin.v.year = 1940 /\ cin.v.month = 12 /\ cin.v.day = 31 /\ cin.v.hour = 23
          /\ cout.calc.audit = <<1940, 12, 31, 23, 0, 0>>

\* C2: the index of t plus one hour is the index of t plus 1, for every
\* encoder and every whole-hour t, across month, year and leap-day boundaries.
C2_HourStep ==
    (cpc = "next") => \A k \in DOMAIN cmid : cout[k] = cmid[k] + 1

\* the step from Feb 28 23:00 into the leap day of 1940 has been encoded
C2_Witness ==
    /\ cpc = "next"
    /\ cin.v.year = 1940 /\ cin.v.month = 2 /\ cin.v.day = 28 /\ cin.v.hour = 23
    /\ cout.calc = cmid.calc + 1

\* the calendar days from 1940-01-01 to a date, counted year by year and
\* month by month
RECURSIVE RefDaysBeforeYear(_)
RefDaysBeforeYear(y) ==
    IF y <= 1940 THEN 0
    ELSE RefDaysBeforeYear(y - 1) + (IF IsLeap(y - 1) THEN 366 ELSE 365)

RefDaysSinceEpoch(dt) ==
    RefDaysBeforeYear(dt.year) + DaysBeforeMonth(dt.year, dt.month) + (dt.day - 1)

\* C3: every encoder computes, for the same whole-hour timestamp, the index
\* 1940*365*24 + (leap-aware days since 1940-01-01)*24 + hour + 1.
C3_EncodersAgree ==
    (cpc # "in" /\ cin.kind = "ts") =>
        LET want == 1940 * 365 * 24 + RefDaysSinceEpoch(cin.v) * 24 + cin.v.hour + 1
        IN  \A k \in DOMAIN cmid : cmid[k] = want

\* 2100-03-01 00:00 (after the February of a century year that is no leap
\* year) has been encoded by every encoder
C3_Witness ==
    /\ cpc = "mid" /\ cin.kind = "ts"
    /\ cin.v.year = 2100 /\ cin.v.month = 3 /\ cin.v.day = 1 /\ cin.v.hour = 0
    /\ cmid.sfc = 18398377 /\ cmid.calc = cmid.iso_rmh

----------------------------------------------------------------------------
(* Claims about gap detection                                               *)

\* the bounds asked for: the index of --start / --end, by default the
\* smallest / largest present index
ReqStart == IF argStart # <<>> THEN hour_index_from_iso(argStart) ELSE MinOf(SortedSeq(storeDirs))
ReqEnd == IF argEnd # <<>> THEN hour_index_from_iso(argEnd) ELSE MaxOf(SortedSeq(storeDirs))
ReqLo == IF ReqStart <= ReqEnd THEN ReqStart ELSE ReqEnd
ReqHi == IF ReqStart <= ReqEnd THEN ReqEnd ELSE ReqStart

StrictlyAscending(xs) == \A i \in 1..(Len(xs) - 1) : xs[i] < xs[i + 1]

\* the audit ended without error and its missing list is, in strictly
\* ascending order, the integers of [min(start,end), max(start,end)] that
\* are not present
MissingListExact ==
    /\ apc = "done" /\ exitCode = 0
    /\ StrictlyAscending(missing)
    /\ SeqSet(missing) = { t \in ReqLo..ReqHi : t \notin storeDirs }

\* C4 as stated: for ANY present set and any bounds the audit ends without
\* error with exactly that list (the bounds are defined when the store is not
\* empty or both are given).
C4_Original ==
    (apc # "start" /\ (storeDirs # {} \/ (argStart # <<>> /\ argEnd # <<>>)))
        => MissingListExact

\* C4 as amended: for every NON-EMPTY present set and any bounds, the missing
\* list is exactly the integers of [min(start,end), max(start,end)] not
\* present, strictly ascending; bounds with start > end are swapped and no
\* error is raised.
C4_MissingList ==
    (apc # "start" /\ storeDirs # {}) => MissingListExact

\* --start 1940-02-29 is after --end "1940-02-28 23:00": the bounds were
\* swapped and both hours of the range were found missing
C4_Witness ==
    /\ apc = "done"
    /\ argStart = <<1940, 2, 29>> /\ argEnd = <<1940, 2, 28, 23, 0>>
    /\ storeDirs # {}
    /\ missing = <<WinBase + 1, WinBase + 2>>

\* C5: for every strictly ascending list, contiguous_ranges yields the maximal
\* runs of consecutive integers as inclusive pairs, ascending, disjoint and
\* never adjacent, whose union is the input; nothing for the empty list and
\* (i, i) for the list of i alone.
C5_MaximalRuns ==
    (rpc # "in" /\ rpc # "idle") =>
        /\ \A i \in 1..Len(rranges) :
              /\ rranges[i][1] <= rranges[i][2]
              /\ (rranges[i][1] - 1) \notin SeqSet(rin)
              /\ (rranges[i][2] + 1) \notin SeqSet(rin)
        /\ UNION { rranges[i][1] .. rranges[i][2] : i \in 1..Len(rranges) } = SeqSet(rin)
        /\ \A i \in 1..(Len(rranges) - 1) : rranges[i + 1][1] > rranges[i][2] + 1
        /\ (rin = <<>>) => (rranges = <<>>)
        /\ (Len(rin) = 1) => (rranges = << <<rin[1], rin[1]>> >>)

\* a list with a run of two, a single index and a run of three was compressed
C5_Witness ==
    /\ rpc = "compressed"
    /\ rin = <<WinBase, WinBase + 1, WinBase + 3, WinBase + 5, WinBase + 6>>
    /\ rranges = << <<WinBase, WinBase + 1>>, <<WinBase + 3, WinBase + 3>>,
                    <<WinBase + 5, WinBase + 6>> >>

\* every index of a printed range is absent from the store
RangesAbsent ==
    \A i \in 1..Len(rangeLines) :
        \A t \in rangeLines[i].a .. rangeLines[i].b : t \notin storeDirs

\* C6 as stated: every reported range holds only absent indices and both
\* a-1 and b+1 are present indices, for every present set and every bounds.
C6_Original ==
    (apc = "done") =>
        /\ RangesAbsent
        /\ \A i \in 1..Len(rangeLines) :
              /\ (rangeLines[i].a - 1) \in storeDirs
              /\ (rangeLines[i].b + 1) \in storeDirs

\* C6 as amended: every reported range holds only absent indices and is
\* maximal inside the audited range: a-1 is a present index or a is the first
\* index of the audited range, and b+1 is a present index or b is its last.
C6_MaximalInRange ==
    (apc = "done") =>
        /\ RangesAbsent
        /\ \A i \in 1..Len(rangeLines) :
              /\ expected[1] <= rangeLines[i].a /\ rangeLines[i].b <= expected[2]
              /\ (rangeLines[i].a - 1) \in storeDirs \/ rangeLines[i].a = expected[1]
              /\ (rangeLines[i].b + 1) \in storeDirs \/ rangeLines[i].b = expected[2]

\* an audit from one hour before the window reported a range that starts at
\* the bound (no present index before it) and a second range between two
\* present indices
C6_Witness ==
    /\ apc = "done" /\ Len(rangeLines) >= 2
    /\ rangeLines[1].a = expected[1] /\ (rangeLines[1].a - 1) \notin storeDirs
    /\ (rangeLines[2].a - 1) \in storeDirs /\ (rangeLines[2].b + 1) \in storeDirs

\* C7 as stated: with an empty present set and a requested range, the whole
\* range is reported missing (list and ledger) and the audit does not end in
\* an error.
C7_Original ==
    (apc # "start" /\ rootIsDir /\ storeDirs = {} /\ argStart # <<>> /\ argEnd # <<>>) =>
        /\ exitCode = 0
        /\ SeqSet(missing) = ReqLo..ReqHi
        /\ csv.exists /\ { csv.rows[i][1] : i \in 1..Len(csv.rows) } = ReqLo..ReqHi

\* C7 as amended: with an empty present set the audit ends with exit code 1
\* whatever range is requested; it reports no missing index, prints no range
\* and leaves the ledger file as it was.
C7_EmptyStoreExits ==
    (apc # "start" /\ rootIsDir /\ storeDirs = {}) =>
        /\ apc = "exit" /\ exitCode = 1
        /\ missing = <<>> /\ rangeLines = <<>> /\ expected = <<>>
        /\ csv \in {NoLedger, OldLedger}

\* the audit of an empty store with both bounds given has ended
C7_Witness ==
    /\ apc = "exit" /\ rootIsDir /\ storeDirs = {}
    /\ argStart = <<1940, 2, 28, 21, 0>> /\ argEnd = <<1940, 3, 1>>
    /\ exitCode = 1

\* C8: expanding the compression of a strictly ascending list gives the list
\* back, and recompressing the expansion of a range list produced by
\* contiguous_ranges gives the range list back.
C8_ExpandCompress ==
    /\ (rpc \in {"expanded", "recompressed"}) => (rexp = rin)
    /\ (rpc = "recompressed") => (rre = rranges)

\* a list of two runs went through compression, expansion and recompression
C8_Witness ==
    /\ rpc = "recompressed"
    /\ Len(rranges) = 2 /\ Len(rin) = 5
    /\ rre = rranges /\ rexp = rin


----------------------------------------------------------------------------
(* Claims about the repair                                                  *)

\* the rows of the ledger whose date lies inside the window of the run,
\* read off the ledger by day numbers
RowDayNumber(i) == DaysFromCivil(csv.rows[i][2][1], csv.rows[i][2][2], csv.rows[i][2][3])
RowDate(i) ==
    [year |-> csv.rows[i][2][1], month |-> csv.rows[i][2][2], day |-> csv.rows[i][2][3]]
RowsInWindow ==
    { i \in 1..Len(csv.rows) :
        /\ hArgs.start # <<>> =>
             RowDayNumber(i) >= DaysFromCivil(hArgs.start[1], hArgs.start[2], hArgs.start[3])
        /\ hArgs.end # <<>> =>
             RowDayNumber(i) <= DaysFromCivil(hArgs.end[1], hArgs.end[2], hArgs.end[3]) }
RowDatesInWindow == { RowDate(i) : i \in RowsInWindow }
RowHoursOf(d) == { csv.rows[i][2][4] : i \in { j \in RowsInWindow : RowDate(j) = d } }

\* C9: grouping the ledger by day maps each date with at least one row inside
\* the [start, end] window to exactly the set of hours of day of its rows, and
\* no other date to anything; the work item of a date carries that set in
\* partial-hour mode and the all-hours sentinel in full-day mode
C9_GroupByDay ==
    (hpc \in {"run", "done", "exit"} /\ csv.exists) =>
        /\ DOMAIN per_day = RowDatesInWindow
        /\ \A d \in RowDatesInWindow : per_day[d] = RowHoursOf(d) /\ per_day[d] \subseteq 0..23
        /\ \A i \in 1..Len(hItems) :
              /\ hItems[i].date = dates[i]
              /\ hItems[i].date \in RowDatesInWindow
              /\ hArgs.full_day => hItems[i].all
              /\ ~hArgs.full_day =>
                    ~hItems[i].all /\ hItems[i].hours = RowHoursOf(hItems[i].date)

\* a partial-hour run with a window that leaves a row of the ledger out, whose
\* first work item carries two hours or more
C9_Witness ==
    /\ hpc = "run" /\ Len(hItems) >= 1
    /\ ~hArgs.full_day
    /\ hArgs.start # <<>>
    /\ RowsInWindow # 1..Len(csv.rows)
    /\ Cardinality(hItems[1].hours) >= 2

\* C10: the ledger has the header hour_index,iso_utc and one row per missing
\* index, the row's calendar string being the decoded index with its seconds;
\* every hour the repair writes whose calendar string is that of a row is
\* written at the row's index
C10_LedgerAgrees ==
    (hpc \in {"start", "run", "done", "exit"} /\ csv.exists) =>
        /\ csv.header = <<"hour_index", "iso_utc">>
        /\ Len(csv.rows) = Len(missing)
        /\ \A i \in 1..Len(csv.rows) :
              /\ csv.rows[i][1] = missing[i]
              /\ csv.rows[i][2] = iso_from_hour_index(csv.rows[i][1])
              /\ Len(csv.rows[i][2]) = 6
              /\ \A j \in 1..Len(csv.rows) : csv.rows[j][1] = csv.rows[i][1] => j = i
        /\ \A k \in 1..Len(storeOps) :
              storeOps[k].op = "write" =>
                  LET written == strftime(ToDatetime(storeOps[k].ts))
                  IN  \A i \in 1..Len(csv.rows) :
                          written = csv.rows[i][2] => storeOps[k].time = csv.rows[i][1]

\* a repair has written an hour of the leap day that the ledger lists
C10_Witness ==
    /\ hpc \in {"run", "done"} /\ csv.exists
    /\ \E k \in 1..Len(storeOps) : \E i \in 1..Len(csv.rows) :
          /\ storeOps[k].op = "write"
          /\ strftime(ToDatetime(storeOps[k].ts)) = csv.rows[i][2]
          /\ csv.rows[i][2][2] = 2 /\ csv.rows[i][2][3] = 29
          /\ storeOps[k].time = csv.rows[i][1]


----------------------------------------------------------------------------
(* Claims about the range report and the days derived from it               *)

\* the maximal runs of consecutive indices of the audit's missing list, in
\* ascending order
AbsentRuns ==
    LET S == SeqSet(missing)
    IN  { r \in S \X S :
            /\ r[1] <= r[2]
            /\ \A t \in r[1]..r[2] : t \in S
            /\ (r[1] - 1) \notin S /\ (r[2] + 1) \notin S }
RunsInOrder ==
    LET starts == SortedSeq({ r[1] : r \in AbsentRuns })
    IN  [i \in 1..Len(starts) |-> CHOOSE r \in AbsentRuns : r[1] = starts[i]]

\* the runs whose line reached the file whole
KeptRuns ==
    IF Len(rfile) >= 2 /\ Len(rfile[2]) # 11 THEN Tail(RunsInOrder) ELSE RunsInOrder

\* C11: every range line the audit prints for (a, b) is read back as (a, b) by
\* parse_ranges of rebuild_missing_from_ranges and as the decoded timestamps
\* of a and b by parse_ranges of run_missing_days_fast; other lines are
\* ignored; a file without a range line ends the tool with exit code 2 before
\* anything is written
C11_RangeLinesReparse ==
    (xpc \notin {"idle", "start"}) =>
        /\ (xExit = 2) <=> (KeptRuns = <<>>)
        /\ (xExit # 2 /\ xArgs.tool = "rebuild") => xranges = KeptRuns
        /\ (xExit # 2 /\ xArgs.tool = "fast") =>
              xranges = [i \in 1..Len(KeptRuns) |->
                           <<dt_from_hour_index(KeptRuns[i][1]), dt_from_hour_index(KeptRuns[i][2])>>]
        /\ (xExit = 2) =>
              /\ xpc = "exit"
              /\ ~csv.exists /\ ~days_txt.exists
              /\ xstarted = <<>>
              /\ \A t \in storeDirs : storeData[t] = 0

\* run_missing_days_fast has read two ranges back from a text that begins
\* with a line that is no range
C11_Witness ==
    /\ xpc = "run" /\ xArgs.tool = "fast"
    /\ rfile[1] = InfoLine
    /\ Len(xranges) >= 2
    /\ xranges[1][1] = dt_from_hour_index(missing[1])

\* the dates of the hours of the runs read back, as "YYYY-MM-DD"
KeptDays ==
    { SubSeq(iso_from_hour_index(t), 1, 3) :
        t \in UNION { KeptRuns[i][1]..KeptRuns[i][2] : i \in 1..Len(KeptRuns) } }
DayNumber(d) == DaysFromCivil(d[1], d[2], d[3])
AscendingDays(ds) == \A i \in 1..(Len(ds) - 1) : DayNumber(ds[i]) < DayNumber(ds[i + 1])

\* C12: the list of missing days is exactly the distinct dates of the hours
\* of the ranges, ascending, without duplicates, both as written to the days
\* ledger by rebuild_missing_from_ranges and as derived by
\* run_missing_days_fast, whose month groups partition it into sorted lists
C12_DaysOfRanges ==
    /\ (xpc \in {"listed", "run", "shutdown", "done"} /\ xArgs.tool = "rebuild") =>
          /\ days_txt.exists
          /\ SeqSet(days_txt.lines) = KeptDays
          /\ AscendingDays(days_txt.lines)
          /\ xwork = days_txt.lines
    /\ (xpc \in {"run", "shutdown", "done"} /\ xArgs.tool = "fast") =>
          /\ { isoformat(xdays[i]) : i \in 1..Len(xdays) } = KeptDays
          /\ AscendingDays([i \in 1..Len(xdays) |-> isoformat(xdays[i])])
          /\ \A i \in 1..Len(xwork) :
                /\ xwork[i].days # <<>>
                /\ AscendingDays([j \in 1..Len(xwork[i].days) |-> isoformat(xwork[i].days[j])])
                /\ \A j \in 1..Len(xwork[i].days) :
                      /\ xwork[i].days[j].year = xwork[i].year
                      /\ xwork[i].days[j].month = xwork[i].month
                /\ \A k \in 1..Len(xwork) :
                      (xwork[k].year = xwork[i].year /\ xwork[k].month = xwork[i].month) => k = i
          /\ UNION { SeqSet(xwork[i].days) : i \in 1..Len(xwork) } = SeqSet(xdays)

\* a range from 1940-02-28 23:00 to 1940-03-01 00:00 gave the three days, in
\* two month groups, the first of two days
C12_Witness ==
    /\ xpc = "run" /\ xArgs.tool = "fast"
    /\ Len(xdays) = 3
    /\ Len(xwork) = 2 /\ Len(xwork[1].days) = 2
    /\ Len(xranges) = 1


----------------------------------------------------------------------------
(* Claims about the executors                                               *)

\* C13: a work item whose source file is absent does not prevent the other
\* work items of the run from being processed: when the run has ended, every
\* date whose month file is in the archive (the files being well formed) was
\* handed to write_missing_for_date
C13_SiblingsProcessed ==
    (hpc \in {"done", "exit"} /\ csv.exists /\ SourceChecks(source) = "") =>
        \A i \in 1..Len(dates) :
            MonthFileFound(source, dates[i].year, dates[i].month) => i <= Len(hItems)

\* C14: under --stop-on-error, once run_for_days has seen the failure of an
\* item it starts no item that was not started before
C14_NoStartAfterStop ==
    (xpc \in {"run", "shutdown", "done"} /\ xArgs.tool = "rebuild" /\ xstopAt >= 0) =>
        Len(xstarted) = xstopAt

C16_WriteBeforeCompress ==
    (lpc = "out") =>
        /\ \A k \in 1..Len(lout) :
              lout[k].op = "compress" =>
                  \E j \in 1..(k - 1) : lout[j].op = "write" /\ lout[j].time = lout[k].time
        /\ lin.compress = "none" => \A k \in 1..Len(lout) : lout[k].op = "write"
        /\ lin.compress = "per-timestep" =>
              /\ Len(lout) = 2 * Len(lin.times)
              /\ \A i \in 1..Len(lin.times) :
                    /\ lout[2 * i - 1].op = "write" /\ lout[2 * i].op = "compress"
                    /\ lout[2 * i - 1].time = lout[2 * i].time
        /\ lin.compress = "end" =>
              /\ Len(lout) = 2 * Len(lin.times)
              /\ \A i \in 1..Len(lin.times) :
                    /\ lout[i].op = "write" /\ lout[Len(lin.times) + i].op = "compress"
                    /\ lout[i].time = lout[Len(lin.times) + i].time
        /\ \A i \in 1..Len(lin.times) : \E k \in 1..Len(lout) :
              lout[k].op = "write" /\ lout[k].ts = lin.times[i]

\* the loop of write_month has written three hours and compressed them at
\* the end
C16_Witness ==
    /\ lpc = "out" /\ lin.tool = "fast" /\ lin.compress = "end"
    /\ Len(lin.times) >= 3
    /\ lout[Len(lout)].op = "compress"

\* C17: the second run of the same repair leaves the time directories and
\* their contents as the first run left them, and counts the same number of
\* hours written
C17_SecondRunSame ==
    (run = 2 /\ hpc \in {"done", "exit"}) =>
        /\ storeDirs = firstRun.dirs
        /\ storeData = firstRun.data
        /\ total_written = firstRun.written
        /\ total_days = firstRun.days
        /\ hExit = firstRun.exit /\ hpc = firstRun.ended

\* the second run has written again the hours the first one wrote
C17_Witness ==
    /\ run = 2 /\ hpc = "done"
    /\ firstRun.written >= 2 /\ total_written = firstRun.written
    /\ \E t \in DOMAIN storeData : storeData[t] # 0

\* C18: with the archive complete, a run of run_missing_days_fast (which
\* writes whole days) leaves every hour of every day derived from the ranges
\* in the store
C18_FullDayComplete ==
    (xpc \in {"done", "exit"} /\ xArgs.tool = "fast" /\ xExit # 2) =>
        \A i \in 1..Len(xdays) :
            MonthFileFound(source, xdays[i].year, xdays[i].month) =>
                \A h \in source.hours[xdays[i]] :
                    calculate_abs_hour_index(xdays[i].year, xdays[i].month, xdays[i].day, h)
                        \in storeDirs

\* the indices the ledger lists on the dates the run processes
LedgerSelected ==
    { csv.rows[i][1] : i \in { j \in RowsInWindow : RowDate(j) \in SeqSet(dates) } }

\* C19: in partial-hour mode every index written or compressed is listed in
\* the ledger, inside the date window and the day limit; every other
\* timestep of the store holds what it held before the run
C19_PartialFrame ==
    (hpc \in {"run", "done", "exit"} /\ csv.exists /\ ~hArgs.full_day) =>
        LET listed == LedgerSelected
        IN  /\ \A k \in 1..Len(storeOps) : storeOps[k].time \in listed
            /\ \A t \in DOMAIN storeData : t \notin listed => storeData[t] = 0
            /\ \A t \in storeDirs : t \notin listed => t \in (LedgerUniverse \ SeqSet(missing))

\* a partial-hour run under --limit-days has written the hours of its one
\* date and left alone a timestep of the store and a later date of the ledger
C19_Witness ==
    /\ hpc = "done" /\ ~hArgs.full_day /\ hArgs.limit_days # <<>>
    /\ storeOps # <<>>
    /\ Cardinality(DOMAIN per_day) >= 2
    /\ \E t \in DOMAIN storeData : storeData[t] = 0

\* C20: a requested hour that the month file does not hold is skipped: the
\* run is not ended by an exception unless the month file itself is absent
\* (the files being well formed)
C20_AbsentHourSkipped ==
    (hpc = "exit" /\ hExit = 1 /\ SourceChecks(source) = "") =>
        ~MonthFileFound(source, hItems[Len(hItems)].date.year, hItems[Len(hItems)].date.month)

----------------------------------------------------------------------------
(* Claims about the checks made on the source                               *)

\* the hours a work item asks for: 24 in full-day mode, else the size of its
\* hour set
ExpectedHours(item) == IF item.all THEN 24 ELSE Cardinality(item.hours)

\* the slices write_missing_for_date extracts for a work item
ExtractedOf(item) ==
    SelectedTimes(DayTimes(FileTimes(source, item.date.year, item.date.month), item.date), item)

\* C21: a work item whose month file lacks the variable or the time
\* coordinate, or gives a number of slices other than the hours asked for,
\* ends in an exception and has made no call on the store
C21_SourceDataError ==
    (hpc \in {"run", "done", "exit"} /\ csv.exists) =>
        \A i \in 1..Len(hItems) :
            ( /\ MonthFileFound(source, hItems[i].date.year, hItems[i].date.month)
              /\ \/ SourceChecks(source) # ""
                 \/ Len(ExtractedOf(hItems[i])) # ExpectedHours(hItems[i]) )
            => /\ hpc = "exit" /\ hExit = 1 /\ i = Len(hItems)
               /\ \A k \in 1..Len(storeOps) : storeOps[k].item # i

\* C22: every index handed to db.write lies inside the time window the store
\* was created with, whichever script created it and whichever wrote
C22_InsideWindow ==
    (wpc = "written") =>
        /\ wstore.TIME_START <= wcall.time
        /\ wcall.time <= wstore.TIME_END

----------------------------------------------------------------------------
(* Claims about the end of a run                                            *)

\* C23: a run of rebuild_missing_from_ranges --execute in which the command
\* of some day returned a non-zero code ends with a non-zero exit code
C23_PartialSuccessExit ==
    (xpc = "done" /\ xArgs.tool = "rebuild"
        /\ \E k \in 1..Len(xresults) : xresults[k].rc # 0) =>
        xExit # 0

----------------------------------------------------------------------------
(* Claims about the scan                                                    *)

\* a name that is the decimal writing of an index
IsDecimal(name) == name # <<>> /\ \A i \in 1..Len(name) : IsDigit(name[i])

\* C27: the scan returns the indices of the subdirectories named by a decimal
\* index, each once and in ascending order, and ignores every other entry
C27_ScanSortedSet ==
    (npc = "out") =>
        /\ \A i \in 1..(Len(npresent) - 1) : npresent[i] < npresent[i + 1]
        /\ SeqSet(npresent) = { IntOf(e.name) : e \in { x \in nroot : x.isdir /\ IsDecimal(x.name) } }

----------------------------------------------------------------------------
(* Claims about fatal inputs, the pool and the consumption of work items    *)

\* the store as it was before a repair or a tool that reads the audit's text
StoreUntouched ==
    /\ storeDirs = ExecUniverse \ SeqSet(missing)
    /\ \A t \in DOMAIN storeData : storeData[t] = 0
    /\ idxExists = (storeDirs # {})
    /\ storeOps = <<>>

\* C24: a fatal input error ends the run with a non-zero exit code before any
\* work: the audit of a path that is no directory, a repair whose ledger is
\* no file, a tool whose text holds no range line; no timestep was written,
\* no store created, no ledger and no list of days written
C24_FatalInputAborts ==
    /\ (apc \in {"done", "exit"} /\ ~rootIsDir) =>
          /\ apc = "exit" /\ exitCode # 0
          /\ csv \in {NoLedger, OldLedger}
          /\ storeDirs = {} /\ missing = <<>> /\ rangeLines = <<>>
    /\ (hpc \in {"run", "done", "exit"} /\ ~csv.exists) =>
          /\ hpc = "exit" /\ hExit # 0
          /\ hItems = <<>> /\ total_written = 0
          /\ StoreUntouched
    /\ (xpc \in {"listed", "run", "shutdown", "done", "exit"}
           /\ \A i \in 1..Len(rfile) :
                 ~(IF xArgs.tool = "rebuild" THEN RANGE_RE_rebuild(rfile[i])
                   ELSE RANGE_RE_fast(rfile[i]))) =>
          /\ xpc = "exit" /\ xExit # 0
          /\ csv = NoLedger /\ ~days_txt.exists
          /\ xstarted = <<>> /\ xwork = <<>>
          /\ StoreUntouched

\* the audit of a path that is no directory has ended, the ledger of an
\* earlier audit being there
C24_Witness ==
    /\ apc = "exit" /\ ~rootIsDir /\ exitCode = 2
    /\ csv = OldLedger

\* C25: at most --jobs work items are running at any moment; and the calls
\* write_month makes for a work item write the item's timestamps one after
\* the other in the order of the file
C25_PoolBounded ==
    (xpc \in {"run", "shutdown", "done", "exit"}) =>
        /\ Cardinality(xrunning) <= xArgs.jobs
        /\ xArgs.tool = "fast" =>
              \A i \in 1..Len(xwork) :
                  LET ts      == MonthTimes(FileTimes(source, xwork[i].year, xwork[i].month),
                                            xwork[i].days)
                      ops     == write_month_ops(ts, xArgs.compress)
                      IsWrite(o) == o.op = "write"
                      writes  == SelectSeq(ops, IsWrite)
                  IN  /\ Len(writes) = Len(ts)
                      /\ \A k \in 1..Len(ts) : writes[k].ts = ts[k]
                      /\ \A k \in 1..(Len(ts) - 1) : ts[k] < ts[k + 1]

\* both workers of a pool of two are busy while a third day waits
C25_Witness ==
    /\ xpc = "run" /\ xArgs.tool = "rebuild" /\ xArgs.jobs = 2
    /\ Cardinality(xrunning) = 2
    /\ Len(xstarted) < Len(xwork)

\* what a run has left to do: the phases of main still ahead, and in the
\* loop over the work items the items not yet started, finished and taken
PhaseRank(pc) ==
    CASE pc = "start"    -> 4
      [] pc = "listed"   -> 3
      [] pc = "run"      -> 2
      [] pc = "shutdown" -> 1
      [] OTHER           -> 0

RunLeft ==
    100 * (PhaseRank(apc) + PhaseRank(hpc) + PhaseRank(xpc))
        + (Len(dates) - Len(hItems))
        + (3 * Len(xwork) - Len(xstarted) - Len(xcompleted) - Len(xresults))

\* in a run that no error stops every work item planned was executed once
\* and the results hold one entry per item
ConsumedOnce ==
    /\ (xpc = "done" /\ xArgs.tool = "rebuild" /\ xArgs.execute /\ xArgs.cmd_ok
           /\ xstopAt = -1) =>
          /\ Len(xstarted) = Len(xwork) /\ Len(xresults) = Len(xwork)
          /\ \A i \in 1..Len(xwork) :
                /\ Cardinality({ k \in 1..Len(xstarted) : xstarted[k] = i }) = 1
                /\ Cardinality({ k \in 1..Len(xresults) : xresults[k].item = i }) = 1
    /\ (xpc \in {"run", "shutdown"} /\ xArgs.tool = "rebuild") =>
          \A i \in 1..Len(xwork) :
              Cardinality({ k \in 1..Len(xstarted) : xstarted[k] = i }) <= 1
    /\ (hpc = "done" /\ csv.exists) =>
          /\ Len(hItems) = Len(dates) /\ total_days = Len(dates)
          /\ \A i \in 1..Len(dates) : hItems[i].date = dates[i]

\* C26: in a run that no error stops, every work item planned is executed
\* once, in a run of the days by rebuild_missing_from_ranges and in a run of
\* the dates by run_missing_hours or run_missing_days, the results holding
\* one entry per item; and every run ends, each step leaving less to do
C26_ConsumedOnce == [][ConsumedOnce' /\ RunLeft' < RunLeft /\ RunLeft' >= 0]_vars

\* a pool of two workers has run three days, the second of which failed, and
\* the results hold the three of them
C26_Witness ==
    /\ xpc = "done" /\ xArgs.tool = "rebuild" /\ xArgs.jobs = 2 /\ xstopAt = -1
    /\ Len(xwork) = 3 /\ Len(xresults) = 3
    /\ \E k \in 1..3 : xresults[k].rc # 0

----------------------------------------------------------------------------
(* Claim about the creation of the store                                    *)

\* C28: create-if-absent-else-open is no atomic step: a worker that found the
\* store absent calls the create primitive, and one that found it opens it,
\* whatever the other workers did to the store in between
C28_CreateRace ==
    \A w \in DOMAIN qpc :
        (qpc[w] \in {"open", "written", "done"}) =>
            \E k \in 1..Len(qlog) :
                /\ qlog[k].w = w
                /\ qlog[k].op = (IF qseen[w] THEN "load" ELSE "create")

\* a worker created the store and wrote to it, and then another worker, which
\* had found the store absent, created it again
C28_Witness ==
    \E i, j, k \in 1..Len(qlog) :
        /\ i < j /\ j < k
        /\ qlog[i].op = "create" /\ qlog[j].op = "write" /\ qlog[k].op = "create"
        /\ qlog[i].w = qlog[j].w /\ qlog[k].w # qlog[i].w
        /\ qlog[i].w # 0

----------------------------------------------------------------------------
(* Claims about the default range of the audit and about its ledger         *)

\* C29: an omitted --start or --end defaults to the smallest or the largest
\* index present; with both omitted the audited range starts and ends at an
\* index that is present, and every index reported missing lies strictly
\* between the smallest and the largest present: hours absent before the
\* first or after the last timestep are not reported
C29_DefaultRange ==
    (apc = "done") =>
        /\ (argStart = <<>>) =>
              \E e \in {expected[1], expected[2]} :
                  e \in storeDirs /\ \A t \in storeDirs : e <= t
        /\ (argEnd = <<>>) =>
              \E e \in {expected[1], expected[2]} :
                  e \in storeDirs /\ \A t \in storeDirs : t <= e
        /\ (argStart = <<>> /\ argEnd = <<>>) =>
              /\ expected[1] \in storeDirs /\ expected[2] \in storeDirs
              /\ \A t \in storeDirs : expected[1] <= t /\ t <= expected[2]
              /\ \A i \in 1..Len(missing) :
                    expected[1] < missing[i] /\ missing[i] < expected[2]

\* an audit without --start and --end reported a gap inside the store, the
\* first hour of the window being absent as well and not reported
C29_Witness ==
    /\ apc = "done" /\ argStart = <<>> /\ argEnd = <<>>
    /\ missing # <<>>
    /\ WinBase \notin storeDirs
    /\ \A i \in 1..Len(missing) : missing[i] # WinBase

\* the hours the printed range lines count
RECURSIVE HoursPrinted(_)
HoursPrinted(lines) ==
    IF lines = <<>> THEN 0 ELSE lines[1].hours + HoursPrinted(Tail(lines))

\* C30: the audit writes the ledger if and only if an hour is missing: with
\* nothing missing the file is as it was, absent or with the rows of an
\* earlier audit; else it holds one row per missing hour and nothing else,
\* as many rows as the printed ranges count hours
C30_LedgerIffMissing ==
    [][(apc' = "done") =>
          IF missing' = <<>>
          THEN csv' = csv
          ELSE /\ csv'.exists
               /\ csv'.header = <<"hour_index", "iso_utc">>
               /\ Len(csv'.rows) = Len(missing')
               /\ \A i \in 1..Len(missing') : csv'.rows[i][1] = missing'[i]
               /\ Len(missing') = HoursPrinted(rangeLines')]_vars

\* an audit found nothing missing and the ledger of an earlier audit still
\* holds its row
C30_Witness ==
    /\ apc = "done" /\ missing = <<>> /\ rootIsDir
    /\ csv.exists /\ Len(csv.rows) = 1 /\ csv.rows[1][1] = WinBase - 100

====
